---- MODULE Spec2Model ----
(***************************************************************************)
(* Graph execution runtime of the editor: the client handle                *)
(* (NodeGraphExecutor), the runtime loop (NodeRuntime) and the two mpsc    *)
(* channels between them, as in editor/src/node_graph_executor.rs.         *)
(***************************************************************************)
EXTENDS Integers, Sequences, FiniteSets, TLC

(***************************************************************************)
(* Bounds of the model.                                                    *)
(***************************************************************************)
\* Number of client operations that send messages (submissions, font and
\* preferences updates) in one behaviour.
MaxOps == 2

\* Longest response batch and largest request id of the poll-only
\* specification SpecPoll.
MaxBatch == 2

(***************************************************************************)
(* Option, Result and small helpers.                                       *)
(***************************************************************************)
None == <<>>

Some(x) == <<x>>

Ok(v) == [ok |-> TRUE, val |-> v]

Err(e) == [ok |-> FALSE, val |-> e]

Last(s) == s[Len(s)]

Range(s) == {s[i] : i \in DOMAIN s}

Min(S) == CHOOSE x \in S : \A y \in S : x <= y

RECURSIVE SortedIds(_)
\* The ids of a node map in ascending order (the order the maps are walked).
SortedIds(S) == IF S = {} THEN <<>> ELSE <<Min(S)>> \o SortedIds(S \ {Min(S)})

RECURSIVE Flatten(_)
\* Concatenation of a sequence of sequences.
Flatten(ss) == IF ss = <<>> THEN <<>> ELSE Head(ss) \o Flatten(Tail(ss))

(***************************************************************************)
(* Graph values: NodeInput, DocumentNode, NodeNetwork.                     *)
(***************************************************************************)
\* A value flowing through the graph: the type it is tagged with and the
\* values it was computed from.
Value(tag, data) == [tag |-> tag, data |-> data]

\* TaggedValue::F64 of a literal.
TaggedF64(literal) == Value("F64", <<Value(literal, <<>>)>>)

NodeInputNode(id, idx) ==
    [kind |-> "Node", node_id |-> id, output_index |-> idx, value |-> Value("", <<>>)]

NodeInputValue(v) == [kind |-> "Value", node_id |-> 0, output_index |-> 0, value |-> v]

\* NodeInput::Scope: resolved to the editor api when the network is wrapped.
NodeInputScope ==
    [kind |-> "Scope", node_id |-> 0, output_index |-> 0, value |-> Value("", <<>>)]

EmptyNetwork == [nodes |-> <<>>, exports |-> <<>>]

ProtoNode(name, inputs) ==
    [inputs |-> inputs, implementation |-> [kind |-> "ProtoNode", name |-> name, network |-> EmptyNetwork]]

NetworkNode(network, inputs) ==
    [inputs |-> inputs, implementation |-> [kind |-> "Network", name |-> "", network |-> network]]

MonitorNodeName == "graphene_core::memo::MonitorNode"

\* A layer: a nested network whose content passes through a monitor node.
LayerNetwork(content) ==
    [nodes |-> (1 :> ProtoNode(content, <<>>)
                @@ 2 :> ProtoNode(MonitorNodeName, <<NodeInputNode(1, 0)>>)),
     exports |-> <<NodeInputNode(2, 0)>>]

\* Renders a vector layer: one export, takes the render configuration.
DocRender ==
    [nodes |-> (1 :> ProtoNode("render", <<NodeInputNode(2, 0)>>)
                @@ 2 :> NetworkNode(LayerNetwork("shape"), <<>>)),
     exports |-> <<NodeInputNode(1, 0)>>]

\* Exports a plain number: one export, takes the unit input.
DocNumber ==
    [nodes |-> (1 :> ProtoNode("number", <<>>)),
     exports |-> <<NodeInputNode(1, 0)>>]

\* One export, but an input refers to a node that does not exist.
DocBroken ==
    [nodes |-> (1 :> ProtoNode("render", <<NodeInputNode(3, 0)>>)),
     exports |-> <<NodeInputNode(1, 0)>>]

DocTwoExports ==
    [nodes |-> (1 :> ProtoNode("render", <<NodeInputNode(2, 0)>>)
                @@ 2 :> ProtoNode("number", <<>>)),
     exports |-> <<NodeInputNode(1, 0), NodeInputNode(2, 0)>>]

DocNoExport ==
    [nodes |-> (1 :> ProtoNode("number", <<>>)),
     exports |-> <<>>]

\* The document networks the editor hands to the client handle.
DocList == <<DocRender, DocNumber, DocBroken, DocTwoExports, DocNoExport>>

Docs == Range(DocList)

\* A sum of two numbers, and a number nothing uses.
DocSum ==
    [nodes |-> (1 :> ProtoNode("number", <<NodeInputNode(2, 0), NodeInputNode(3, 0)>>)
                @@ 2 :> ProtoNode("number", <<NodeInputValue(TaggedF64("5"))>>)
                @@ 3 :> ProtoNode("number", <<NodeInputValue(TaggedF64("3"))>>)
                @@ 4 :> ProtoNode("number", <<NodeInputValue(TaggedF64("7"))>>)),
     exports |-> <<NodeInputNode(1, 0)>>]

\* A nested network with two exports: a shape and its vector data.
SplitNetwork ==
    [nodes |-> (1 :> ProtoNode("shape", <<>>)
                @@ 2 :> ProtoNode("vector", <<>>)),
     exports |-> <<NodeInputNode(1, 0), NodeInputNode(2, 0)>>]

\* Renders the secondary output of a node with two outputs.
DocSplit ==
    [nodes |-> (1 :> ProtoNode("render", <<NodeInputNode(2, 1)>>)
                @@ 2 :> NetworkNode(SplitNetwork, <<>>)),
     exports |-> <<NodeInputNode(1, 0)>>]

\* Renders a layer of vector data.
DocVectorRender ==
    [nodes |-> (1 :> ProtoNode("render", <<NodeInputNode(2, 0)>>)
                @@ 2 :> NetworkNode(LayerNetwork("vector"), <<>>)),
     exports |-> <<NodeInputNode(1, 0)>>]

\* Exports a shape: the program takes neither the render configuration nor
\* the unit input.
DocShape ==
    [nodes |-> (1 :> ProtoNode("shape", <<NodeInputNode(2, 0)>>)
                @@ 2 :> ProtoNode("number", <<NodeInputValue(TaggedF64("5"))>>)),
     exports |-> <<NodeInputNode(1, 0)>>]

\* A layer of text, rendered with the font cache of the editor api in scope.
TextLayerNetwork ==
    [nodes |-> (1 :> ProtoNode("text", <<NodeInputScope>>)
                @@ 5 :> ProtoNode(MonitorNodeName, <<NodeInputNode(1, 0)>>)),
     exports |-> <<NodeInputNode(5, 0)>>]

\* Renders a text layer.
DocText ==
    [nodes |-> (1 :> ProtoNode("render", <<NodeInputNode(6, 0)>>)
                @@ 6 :> NetworkNode(TextLayerNetwork, <<>>)),
     exports |-> <<NodeInputNode(1, 0)>>]

\* A nested network with two exports, each passing through a monitor.
SplitLayerNetwork ==
    [nodes |-> (1 :> ProtoNode("shape", <<>>)
                @@ 2 :> ProtoNode("vector", <<>>)
                @@ 3 :> ProtoNode(MonitorNodeName, <<NodeInputNode(1, 0)>>)
                @@ 4 :> ProtoNode(MonitorNodeName, <<NodeInputNode(2, 0)>>)),
     exports |-> <<NodeInputNode(3, 0), NodeInputNode(4, 0)>>]

\* Renders the vector data of a layer whose shape output nothing reads.
DocSplitLayers ==
    [nodes |-> (1 :> ProtoNode("render", <<NodeInputNode(2, 1)>>)
                @@ 2 :> NetworkNode(SplitLayerNetwork, <<>>)),
     exports |-> <<NodeInputNode(1, 0)>>]

\* The graphs a long editing session sends to the runtime.
SessionDocList == <<DocText, DocSplitLayers, DocBroken>>

SessionDocs == Range(SessionDocList)

\* The documents of the editor tests (one document per test).
TestDocList == <<DocSum, DocSplit, DocVectorRender, DocShape>>

TestDocs == {DocRender} \cup Range(TestDocList)

\* Inspect targets of the editor tests.
TestInspectNodes == {None, Some(1), Some(2)}

\* Inspect targets the editor asks for.
InspectNodes == {None, Some(1)}

FontCaches == {"fontA"}

Preferences == {"prefsA"}

FileTypes == {"Png"}

(***************************************************************************)
(* InspectState: splicing the inspect monitor into a network.              *)
(***************************************************************************)
\* Mutant of MonitorDocumentNode: the monitor is not wired to the output
\* it taps.
MonitorDocumentNodeUnwired(input) ==
    ProtoNode(MonitorNodeName, <<NodeInputValue(Value("", <<>>))>>)

\* The monitor node inserted by monitor_inspect_node and Instrumented::add.
MonitorDocumentNode(input) == ProtoNode(MonitorNodeName, <<input>>)

\* Mutant of RetargetInput: every output of the inspect node is retargeted.
RetargetInputAnyOutput(input, inspect_node, monitor_id) ==
    IF input.kind # "Node" THEN input
    ELSE IF input.node_id # inspect_node THEN input
    ELSE [input EXCEPT !.node_id = monitor_id]

\* Lines 433-439: an input that refers to the primary output of the inspect
\* node is retargeted to the monitor, any other input is left alone.
RetargetInput(input, inspect_node, monitor_id) ==
    IF input.kind # "Node" THEN input
    ELSE IF input.output_index # 0 \/ input.node_id # inspect_node THEN input
    ELSE [input EXCEPT !.node_id = monitor_id]

RetargetInputs(inputs, inspect_node, monitor_id) ==
    [i \in DOMAIN inputs |-> RetargetInput(inputs[i], inspect_node, monitor_id)]

\* InspectState::monitor_inspect_node: the rewritten network.
MonitorInspectNetwork(network, inspect_node, monitor_id) ==
    LET retargeted ==
            [id \in DOMAIN network.nodes |->
                [network.nodes[id] EXCEPT
                    !.inputs = RetargetInputs(@, inspect_node, monitor_id)]]
    IN  [nodes |-> (monitor_id :> MonitorDocumentNode(NodeInputNode(inspect_node, 0)))
                   @@ retargeted,
         exports |-> RetargetInputs(network.exports, inspect_node, monitor_id)]

\* Mutant of NewInspectState: the subscription names the inspected node as
\* its monitor.
NewInspectStateTargetAsMonitor(inspect_node, monitor_id) ==
    [inspect_node |-> inspect_node, monitor_node |-> inspect_node]

\* InspectState::monitor_inspect_node: the returned state.
NewInspectState(inspect_node, monitor_id) ==
    [inspect_node |-> inspect_node, monitor_node |-> monitor_id]

(***************************************************************************)
(* Instrumented: a monitor on every input of every node.                   *)
(***************************************************************************)
\* Instrumented::default().
DefaultInstrumented == [protonodes_by_name |-> <<>>, protonodes_by_path |-> <<>>]

RECURSIVE InstrumentedAdd(_, _, _)
RECURSIVE InstrumentedAddNodes(_, _, _)
\* Lines 844-866, the loop over the nodes of one network. `acc` holds the
\* index, the id generator, the network being rewritten and the monitors
\* still to insert.
InstrumentedAddNodes(acc, ids, path) ==
    IF ids = <<>> THEN acc
    ELSE LET id == Head(ids)
             node == acc.network.nodes[id]
             is_network == node.implementation.kind = "Network"
             nested == InstrumentedAdd([instrumented |-> acc.instrumented,
                                        next_id |-> acc.next_id],
                                       node.implementation.network, Append(path, id))
             acc1 == IF is_network
                     THEN [acc EXCEPT
                             !.instrumented = nested.instrumented,
                             !.next_id = nested.next_id,
                             !.network.nodes[id].implementation.network = nested.network]
                     ELSE acc
             monitor_id(i) == acc1.next_id + i - 1
             monitor_node_ids == [i \in DOMAIN node.inputs |-> Append(path, monitor_id(i))]
             acc2 == [acc1 EXCEPT
                        !.network.nodes[id].inputs =
                            [i \in DOMAIN node.inputs |-> NodeInputNode(monitor_id(i), 0)],
                        !.next_id = @ + Len(node.inputs),
                        !.monitor_nodes = @ \o [i \in DOMAIN node.inputs |->
                                                  [input |-> node.inputs[i],
                                                   monitor_id |-> monitor_id(i)]]]
             name == node.implementation.name
             by_name == acc2.instrumented.protonodes_by_name
             occurrences == IF name \in DOMAIN by_name THEN by_name[name] ELSE <<>>
             acc3 == IF is_network THEN acc2
                     ELSE [acc2 EXCEPT
                             !.instrumented.protonodes_by_name =
                                 (name :> Append(occurrences, monitor_node_ids)) @@ @,
                             !.instrumented.protonodes_by_path =
                                 (Append(path, id) :> monitor_node_ids) @@ @]
         IN  InstrumentedAddNodes(acc3, Tail(ids), path)

\* Mutant of InstrumentedAdd: nested networks are left as they are.
InstrumentedAddRootOnly(st, network, path) ==
    LET walked == InstrumentedAddNodes(
                      [instrumented |-> st.instrumented, next_id |-> st.next_id,
                       network |-> network, monitor_nodes |-> <<>>],
                      SortedIds(DOMAIN network.nodes), path)
        monitor_ids == {walked.monitor_nodes[i].monitor_id : i \in DOMAIN walked.monitor_nodes}
        input_of(monitor_id) ==
            (CHOOSE m \in Range(walked.monitor_nodes) : m.monitor_id = monitor_id).input
    IN  IF path # <<>>
        THEN [instrumented |-> st.instrumented, next_id |-> st.next_id, network |-> network]
        ELSE [instrumented |-> walked.instrumented,
              next_id |-> walked.next_id,
              network |-> [walked.network EXCEPT
                              !.nodes = [monitor_id \in monitor_ids |->
                                            MonitorDocumentNode(input_of(monitor_id))] @@ @]]

\* Mutant of InstrumentedAdd: the monitors are inserted before the walk is
\* over, so the walk instruments them too.
InstrumentedAddEager(st, network, path) ==
    LET Inserted(of) ==
            [of.network EXCEPT
                !.nodes = [monitor_id \in {of.monitor_nodes[i].monitor_id :
                                              i \in DOMAIN of.monitor_nodes} |->
                              MonitorDocumentNode(
                                  (CHOOSE m \in Range(of.monitor_nodes) :
                                      m.monitor_id = monitor_id).input)] @@ @]
        walked == InstrumentedAddNodes(
                      [instrumented |-> st.instrumented, next_id |-> st.next_id,
                       network |-> network, monitor_nodes |-> <<>>],
                      SortedIds(DOMAIN network.nodes), path)
        again == InstrumentedAddNodes(
                     [instrumented |-> walked.instrumented, next_id |-> walked.next_id,
                      network |-> Inserted(walked), monitor_nodes |-> <<>>],
                     SortedIds({walked.monitor_nodes[i].monitor_id :
                                   i \in DOMAIN walked.monitor_nodes}), path)
    IN  [instrumented |-> again.instrumented,
         next_id |-> again.next_id,
         network |-> Inserted(again)]

\* Instrumented::add: the index, the id generator and the network afterwards.
InstrumentedAdd(st, network, path) ==
    LET walked == InstrumentedAddNodes(
                      [instrumented |-> st.instrumented, next_id |-> st.next_id,
                       network |-> network, monitor_nodes |-> <<>>],
                      SortedIds(DOMAIN network.nodes), path)
        monitor_ids == {walked.monitor_nodes[i].monitor_id : i \in DOMAIN walked.monitor_nodes}
        input_of(monitor_id) ==
            (CHOOSE m \in Range(walked.monitor_nodes) : m.monitor_id = monitor_id).input
    IN  [instrumented |-> walked.instrumented,
         next_id |-> walked.next_id,
         network |-> [walked.network EXCEPT
                         !.nodes = [monitor_id \in monitor_ids |->
                                       MonitorDocumentNode(input_of(monitor_id))] @@ @]]

\* Instrumented::new.
InstrumentedNew(network, next_id) ==
    InstrumentedAdd([instrumented |-> DefaultInstrumented, next_id |-> next_id],
                    network, <<>>)

(***************************************************************************)
(* Compiler and executor core (external collaborators).                    *)
(***************************************************************************)
RECURSIVE NodesInScope(_, _)
\* The nodes of a network with every scope input, at every depth, resolved
\* to the editor api.
NodesInScope(nodes, api) ==
    [id \in DOMAIN nodes |->
        [inputs |-> [i \in DOMAIN nodes[id].inputs |->
                        IF nodes[id].inputs[i].kind = "Scope"
                        THEN NodeInputValue(api) ELSE nodes[id].inputs[i]],
         implementation |->
            IF nodes[id].implementation.kind = "Network"
            THEN [nodes[id].implementation EXCEPT
                     !.network.nodes = NodesInScope(@, api)]
            ELSE nodes[id].implementation]]

\* wrap_network_in_scope: the network with the editor api in scope.
wrap_network_in_scope(graph, editor_api) ==
    [nodes |-> NodesInScope(graph.nodes,
                            Value("WasmEditorApi",
                                  <<Value(editor_api.font_cache, <<>>),
                                    Value(editor_api.editor_preferences, <<>>)>>)),
     exports |-> graph.exports,
     scope |-> [font_cache |-> editor_api.font_cache,
                editor_preferences |-> editor_api.editor_preferences]]

RECURSIVE Resolvable(_)
\* Every node input, at every depth, refers to a node of its own network.
Resolvable(network) ==
    /\ \A i \in DOMAIN network.exports :
          network.exports[i].kind = "Node" =>
              network.exports[i].node_id \in DOMAIN network.nodes
    /\ \A id \in DOMAIN network.nodes :
          LET node == network.nodes[id]
          IN  /\ \A i \in DOMAIN node.inputs :
                    node.inputs[i].kind = "Node" =>
                        node.inputs[i].node_id \in DOMAIN network.nodes
              /\ node.implementation.kind = "Network" =>
                    Resolvable(node.implementation.network)

RECURSIVE ProtoNodes(_, _)
\* The proto nodes of a network, each with the path of its document node.
ProtoNodes(network, path) ==
    LET ids == SortedIds(DOMAIN network.nodes)
        Of(id) ==
            LET node == network.nodes[id]
            IN  IF node.implementation.kind = "Network"
                THEN ProtoNodes(node.implementation.network, Append(path, id))
                ELSE <<[identifier |-> node.implementation.name,
                        path |-> Append(path, id)]>>
    IN  Flatten([i \in DOMAIN ids |-> Of(ids[i])])

\* Compiler::compile_single: the proto network, or a structural error.
compile_single(scoped_network) ==
    IF ~Resolvable(scoped_network)
    THEN Err("unresolvable node reference")
    ELSE Ok([nodes |-> ProtoNodes(scoped_network, <<>>), network |-> scoped_network])

\* The type of the value a proto node outputs.
TagOf(name) ==
    CASE name = "render" -> "RenderOutput::Svg"
      [] name = "number" -> "F64"
      [] name = "shape" -> "GraphicElement"
      [] name = "vector" -> "VectorDataTable"
      [] name = "text" -> "GraphicElement"
      [] OTHER -> "None"

RECURSIVE ValueOf(_, _, _)
\* The value at an output of a node: a proto node computes it from the
\* values of its inputs, a monitor forwards its input unchanged, a nested
\* network outputs its export of that index.
ValueOf(network, id, output_index) ==
    LET node == network.nodes[id]
        In(of, input) == IF input.kind = "Node"
                         THEN ValueOf(of, input.node_id, input.output_index)
                         ELSE input.value
    IN  IF node.implementation.kind = "Network"
        THEN In(node.implementation.network,
                node.implementation.network.exports[output_index + 1])
        ELSE IF node.implementation.name = MonitorNodeName
        THEN In(network, node.inputs[1])
        ELSE Value(TagOf(node.implementation.name),
                   [i \in DOMAIN node.inputs |-> In(network, node.inputs[i])])

RECURSIVE Observations(_, _, _, _)
\* The monitor records one execution leaves behind: for every monitor node
\* evaluated on the way to an output of node `id`, its path and the value it
\* forwarded.
Observations(network, path, id, output_index) ==
    LET node == network.nodes[id]
        Upstream ==
            UNION {IF node.inputs[i].kind = "Node"
                   THEN Observations(network, path, node.inputs[i].node_id,
                                     node.inputs[i].output_index)
                   ELSE {} : i \in DOMAIN node.inputs}
    IN  IF node.implementation.kind = "Network"
        THEN LET nested == node.implementation.network
             IN  Upstream \cup
                 UNION {IF nested.exports[i].kind = "Node"
                        THEN Observations(nested, Append(path, id),
                                          nested.exports[i].node_id,
                                          nested.exports[i].output_index)
                        ELSE {} : i \in {output_index + 1} \cap DOMAIN nested.exports}
        ELSE Upstream \cup
             (IF node.implementation.name = MonitorNodeName
              THEN {[path |-> Append(path, id), value |-> ValueOf(network, id, 0)]}
              ELSE {})

RECURSIVE SourceName(_, _)
\* The proto node a node's value comes from, looking through monitor nodes.
SourceName(network, id) ==
    LET node == network.nodes[id]
    IN  IF node.implementation.kind = "ProtoNode"
           /\ node.implementation.name = MonitorNodeName
           /\ node.inputs[1].kind = "Node"
        THEN SourceName(network, node.inputs[1].node_id)
        ELSE node.implementation.name

\* DynamicExecutor::default().
DefaultExecutor == [tree |-> None, observed |-> {}]

\* DynamicExecutor::update: installs the proto network and reports the
\* resolved types; records of monitors that are gone are dropped.
ExecutorUpdate(executor, proto_network) ==
    LET paths == {proto_network.nodes[i].path : i \in DOMAIN proto_network.nodes}
    IN  IF \E i \in DOMAIN proto_network.nodes : proto_network.nodes[i].identifier = "mistyped"
        THEN [executor |-> executor, result |-> Err(<<"type error">>)]
        ELSE [executor |-> [tree |-> Some(proto_network),
                            observed |-> {o \in executor.observed : o.path \in paths}],
              result |-> Ok("types")]

\* DynamicExecutor::input_type.
ExecutorInputType(executor) ==
    IF executor.tree = None THEN None
    ELSE LET network == executor.tree[1].network
             name == SourceName(network, network.exports[1].node_id)
         IN  Some(CASE name = "render" -> "RenderConfig"
                    [] name = "number" -> "()"
                    [] OTHER -> "Other")

\* DynamicExecutor::execute: the output value and the executor afterwards.
ExecutorExecute(executor) ==
    LET network == executor.tree[1].network
        export == network.exports[1]
        observations == Observations(network, <<>>, export.node_id, export.output_index)
    IN  [executor |-> [executor EXCEPT
                          !.observed = {o \in @ : \A n \in observations : n.path # o.path}
                                       \cup observations],
         result |-> Ok(ValueOf(network, export.node_id, export.output_index))]

\* DynamicExecutor::introspect: the value last observed at a path.
ExecutorIntrospect(executor, path) ==
    IF \E o \in executor.observed : o.path = path
    THEN Ok((CHOOSE o \in executor.observed : o.path = path).value)
    ELSE Err("PathNotFound")

\* Instrumented::downcast: the record's output as Input::Result; a record of
\* any other type panics.
Downcast(dynamic, result_type) ==
    IF dynamic.tag = result_type
    THEN [panic |-> FALSE, value |-> Some(dynamic)]
    ELSE [panic |-> TRUE, value |-> None]

\* Instrumented::grab_all_input, collected: the items the iterator yields,
\* and whether it panicked on the way.
grab_all_input(index, executor, input) ==
    LET occurrences == IF input.identifier \in DOMAIN index.protonodes_by_name
                       THEN index.protonodes_by_name[input.identifier] ELSE <<>>
        with_input == SelectSeq(occurrences, LAMBDA inputs : input.INDEX + 1 \in DOMAIN inputs)
        input_monitor_nodes == [i \in DOMAIN with_input |-> with_input[i][input.INDEX + 1]]
        readable == SelectSeq(input_monitor_nodes,
                              LAMBDA path : ExecutorIntrospect(executor, path).ok)
        dynamics == [i \in DOMAIN readable |-> ExecutorIntrospect(executor, readable[i]).val]
        panics == {i \in DOMAIN dynamics : Downcast(dynamics[i], input.Result).panic}
    IN  IF panics = {}
        THEN [panic |-> FALSE, items |-> dynamics]
        ELSE [panic |-> TRUE, items |-> SubSeq(dynamics, 1, Min(panics) - 1)]

\* Instrumented::grab_protonode_input: the value, or a panic of downcast.
grab_protonode_input(index, executor, path, input) ==
    LET inputs == index.protonodes_by_path[path]
        input_monitor_node == inputs[input.INDEX + 1]
        dynamic == ExecutorIntrospect(executor, input_monitor_node)
    IN  IF path \notin DOMAIN index.protonodes_by_path
        THEN [panic |-> FALSE, value |-> None]
        ELSE IF input.INDEX + 1 \notin DOMAIN inputs
        THEN [panic |-> FALSE, value |-> None]
        ELSE IF ~dynamic.ok
        THEN [panic |-> FALSE, value |-> None]
        ELSE Downcast(dynamic.val, input.Result)

RECURSIVE UpstreamFrom(_, _, _, _)
\* The first node of the given proto node type on the flow of primary
\* inputs that ends in node `id`, looking at most `steps` nodes back.
UpstreamFrom(network, id, identifier, steps) ==
    LET node == network.nodes[id]
    IN  IF id \notin DOMAIN network.nodes \/ steps = 0 THEN None
        ELSE IF node.implementation.kind = "ProtoNode"
                /\ node.implementation.name = identifier
        THEN Some(id)
        ELSE IF node.inputs = <<>> \/ node.inputs[1].kind # "Node" THEN None
        ELSE UpstreamFrom(network, node.inputs[1].node_id, identifier, steps - 1)

\* NodeGraphLayer::upstream_node_id_from_protonode.
upstream_node_id_from_protonode(network, layer, identifier) ==
    UpstreamFrom(network, layer, identifier, Cardinality(DOMAIN network.nodes))

\* Instrumented::grab_input_from_layer.
grab_input_from_layer(index, executor, network, layer, input) ==
    LET node == upstream_node_id_from_protonode(network, layer, input.identifier)
    IN  IF node = None
        THEN [panic |-> FALSE, value |-> None]
        ELSE grab_protonode_input(index, executor, <<node[1]>>, input)

\* The paths the editor tests look up: root-level nodes, nodes of a nested
\* network and a path no document has.
LookupPaths == {<<1>>, <<2>>, <<4>>, <<2, 1>>, <<2, 2>>, <<9>>}

\* The layers the editor tests look up from.
LookupLayers == {1, 2}

\* The input declarations the editor tests query: node type, input index
\* and the type the input is read as. The input of a render node is generic.
InputDeclarations ==
    {[identifier |-> "number", INDEX |-> 0, Result |-> "F64"],
     [identifier |-> "number", INDEX |-> 1, Result |-> "F64"],
     [identifier |-> "render", INDEX |-> 0, Result |-> "GraphicElement"],
     [identifier |-> "render", INDEX |-> 0, Result |-> "VectorDataTable"],
     [identifier |-> "vector", INDEX |-> 0, Result |-> "F64"],
     [identifier |-> "text", INDEX |-> 0, Result |-> "F64"]}

(***************************************************************************)
(* Messages of the two channels.                                           *)
(***************************************************************************)
GraphUpdate(network, inspect_node) ==
    [kind |-> "GraphUpdate", network |-> network, inspect_node |-> inspect_node]

ExecutionRequest(execution_id, render_config) ==
    [kind |-> "ExecutionRequest", execution_id |-> execution_id,
     render_config |-> render_config]

FontCacheUpdate(font_cache) == [kind |-> "FontCacheUpdate", font_cache |-> font_cache]

EditorPreferencesUpdate(preferences) ==
    [kind |-> "EditorPreferencesUpdate", preferences |-> preferences]

ExecutionResponse(execution_id, result, responses, transform, vector_modify, inspect_result) ==
    [kind |-> "ExecutionResponse", execution_id |-> execution_id, result |-> result,
     responses |-> responses, transform |-> transform,
     vector_modify |-> vector_modify, inspect_result |-> inspect_result]

CompilationResponse(result, node_graph_errors) ==
    [kind |-> "CompilationResponse", result |-> result,
     node_graph_errors |-> node_graph_errors]

NodeGraphUpdateMessage == [kind |-> "NodeGraphUpdateMessage"]

(***************************************************************************)
(* State.                                                                  *)
(***************************************************************************)
VARIABLES
    request_channel,    \* NodeRuntimeMessage channel, client to runtime
    response_channel,   \* NodeGraphUpdate channel, runtime to client
    runtime,            \* the fields of NodeRuntime
    pc,                 \* where run() is: "idle", "run" or "panicked"
    requests,           \* run(): the requests of this iteration still to process
    client,             \* the fields of NodeGraphExecutor
    document,           \* the document's click targets and vector-modify cache
    poll_out,           \* what the last poll_node_graph_evaluation returned
    next_uuid,          \* the process-wide id generator
    ops,                \* client operations so far
    drained,            \* the batch the current run() iteration drained
    iter_sent,          \* (request, response) pairs the current iteration sent
    superseded,         \* ids of execution requests dropped by a drain
    submitted,          \* the operation each execution id was submitted by
    graph_log,          \* the handle's graph updates, and how many preceded each request
    lock_wait,          \* the call of the editor thread spinning on NODE_RUNTIME
    document_network,   \* the one document of an editor test, None otherwise
    instrumented,       \* the Instrumented index of an editor test, if any
    grabbed,            \* the last grab_all_input query and what it returned
    looked_up,          \* the last single-result lookup and what it returned
    path_tool           \* the path tool: its FSM state and its PathToolData

vars == <<request_channel, response_channel, runtime, pc, requests, client, document,
          poll_out, next_uuid, ops, drained, iter_sent, superseded, submitted,
          graph_log, lock_wait, document_network, instrumented, grabbed, looked_up, path_tool>>

runtime_vars == <<runtime, pc, requests, drained, iter_sent, superseded>>

client_vars == <<client, document, poll_out, ops, submitted, graph_log>>

editor_vars == <<lock_wait, document_network, instrumented, grabbed, looked_up, path_tool>>

\* generate_uuid / NodeId::new: the first id the generator hands out.
FirstUuid == 10

\* The editor api in its default state (NodeRuntime::new).
DefaultEditorApi ==
    [font_cache |-> "default", editor_preferences |-> "default", application_io |-> FALSE]

\* NodeRuntime::new.
NewNodeRuntime ==
    [executor |-> DefaultExecutor,
     editor_preferences |-> "default",
     old_graph |-> None,
     update_thumbnails |-> TRUE,
     editor_api |-> DefaultEditorApi,
     node_graph_errors |-> <<>>,
     monitor_nodes |-> <<>>,
     inspect_state |-> None,
     thumbnail_renders |-> <<>>,
     vector_modify |-> <<>>]

\* NodeGraphExecutor::default / new_with_local_runtime.
NewNodeGraphExecutor ==
    [futures |-> <<>>, node_graph_hash |-> 0, old_inspect_node |-> None]

\* PathToolData::default, as far as transactions and point insertion go.
NewPathToolData ==
    [segment |-> None, delete_segment_pressed |-> FALSE, double_click_handled |-> FALSE]

\* PathTool::default: the FSM in Ready and the default tool data, with the
\* DocumentMessages and the warnings the last message produced, the
\* transactions the tool has open and the messages processed so far.
NewPathTool ==
    [fsm_state |-> "Ready",
     tool_data |-> NewPathToolData,
     document_messages |-> <<>>,
     warnings |-> <<>>,
     open |-> 0,
     events |-> 0]

\* The log of graph updates before any was sent.
NoGraphLog == [sent |-> <<>>, at |-> <<>>]

\* The log after a submission that sent `sent` and then the execution
\* request `execution_id`.
Logged(log, sent, execution_id) ==
    [sent |-> log.sent \o sent,
     at |-> (execution_id :> Len(log.sent \o sent)) @@ log.at]

\* The outcome of a poll before any poll: nothing drained, nothing handled.
NoPoll ==
    [result |-> Ok("()"), responses |-> <<>>, routed |-> <<>>, drained |-> 0,
     handled |-> <<>>, document_before |-> [click_targets |-> {}, vector_modify |-> <<>>]]

Init ==
    /\ request_channel = <<>>
    /\ response_channel = <<>>
    /\ runtime = NewNodeRuntime
    /\ pc = "idle"
    /\ requests = <<>>
    /\ client = NewNodeGraphExecutor
    /\ document = [click_targets |-> {}, vector_modify |-> <<>>]
    /\ poll_out = NoPoll
    /\ next_uuid = FirstUuid
    /\ ops = 0
    /\ drained = <<>>
    /\ iter_sent = <<>>
    /\ superseded = {}
    /\ submitted = <<>>
    /\ graph_log = NoGraphLog
    /\ lock_wait = "none"
    /\ document_network = None
    /\ instrumented = None
    /\ grabbed = None
    /\ looked_up = None
    /\ path_tool = NewPathTool

(***************************************************************************)
(* NodeRuntime.                                                            *)
(***************************************************************************)
\* Mutant of LastOfKind: the first message of a kind occupies the slot and
\* later ones are ignored.
FirstOfKind(queue, kind) ==
    LET at == {i \in DOMAIN queue : queue[i].kind = kind}
    IN  IF at = {} THEN None ELSE Some(queue[CHOOSE i \in at : \A j \in at : i <= j])

\* The last message of a kind in the drained queue (lines 172-179: every
\* later message of a kind overwrites the slot of that kind).
LastOfKind(queue, kind) ==
    LET at == {i \in DOMAIN queue : queue[i].kind = kind}
    IN  IF at = {} THEN None ELSE Some(queue[CHOOSE i \in at : \A j \in at : j <= i])

\* Mutant of RunRequests: the execution request is processed before the
\* graph update.
RunRequestsExecutionFirst(queue) ==
    LastOfKind(queue, "FontCacheUpdate") \o LastOfKind(queue, "EditorPreferencesUpdate")
    \o LastOfKind(queue, "ExecutionRequest") \o LastOfKind(queue, "GraphUpdate")

\* Mutant of RunRequests: execution requests are not coalesced.
RunRequestsEveryExecution(queue) ==
    LastOfKind(queue, "FontCacheUpdate") \o LastOfKind(queue, "EditorPreferencesUpdate")
    \o LastOfKind(queue, "GraphUpdate")
    \o SelectSeq(queue, LAMBDA message : message.kind = "ExecutionRequest")

\* Mutant of RunRequests: the first graph update of the batch is the one
\* processed.
RunRequestsFirstGraph(queue) ==
    LastOfKind(queue, "FontCacheUpdate") \o LastOfKind(queue, "EditorPreferencesUpdate")
    \o FirstOfKind(queue, "GraphUpdate") \o LastOfKind(queue, "ExecutionRequest")

\* Lines 168-180: the requests one iteration processes, in processing order.
RunRequests(queue) ==
    LET font == LastOfKind(queue, "FontCacheUpdate")
        preferences == LastOfKind(queue, "EditorPreferencesUpdate")
        graph == LastOfKind(queue, "GraphUpdate")
        execution == LastOfKind(queue, "ExecutionRequest")
    IN  font \o preferences \o graph \o execution

\* What try_iter() takes off the channel in one iteration: all of it.
DrainCount(queue) == Len(queue)

\* NodeRuntime::update_network: the runtime afterwards and the result, or
\* a panic of one of its two assertions.
update_network(rt, graph) ==
    LET scoped_network == wrap_network_in_scope(graph, rt.editor_api)
        compiled == compile_single(scoped_network)
        proto_network == compiled.val
        monitors == SelectSeq(proto_network.nodes,
                              LAMBDA node : node.identifier = MonitorNodeName)
        rt1 == [rt EXCEPT !.monitor_nodes = [i \in DOMAIN monitors |-> monitors[i].path]]
        updated == ExecutorUpdate(rt.executor, proto_network)
    IN  IF Len(scoped_network.exports) # 1
        THEN [panic |-> TRUE, rt |-> rt, result |-> Err("Graph with multiple outputs not yet handled")]
        ELSE IF ~compiled.ok
        THEN [panic |-> FALSE, rt |-> rt, result |-> Err(compiled.val)]
        ELSE IF Len(proto_network.nodes) = 0
        THEN [panic |-> TRUE, rt |-> rt1, result |-> Err("No proto nodes exist?")]
        ELSE IF updated.result.ok
        THEN [panic |-> FALSE,
              rt |-> [rt1 EXCEPT !.executor = updated.executor],
              result |-> updated.result]
        ELSE [panic |-> FALSE,
              rt |-> [rt1 EXCEPT !.executor = updated.executor,
                                 !.node_graph_errors = updated.result.val],
              result |-> Err("type errors")]

\* Mutant of execute_network: a program of any input type is executed.
execute_network_any_input_type(rt, render_config) ==
    IF ExecutorInputType(rt.executor) = None
    THEN [executor |-> rt.executor, result |-> Err("No input type")]
    ELSE ExecutorExecute(rt.executor)

\* NodeRuntime::execute_network: the executor afterwards and the result.
execute_network(rt, render_config) ==
    LET input_type == ExecutorInputType(rt.executor)
    IN  IF input_type = None
        THEN [executor |-> rt.executor, result |-> Err("No input type")]
        ELSE IF input_type[1] \in {"RenderConfig", "()"}
        THEN ExecutorExecute(rt.executor)
        ELSE [executor |-> rt.executor, result |-> Err("Invalid input type")]

\* The thumbnail rendered from a graphic element.
RenderThumbnail(graphic_element) == <<"svg", graphic_element>>

\* Mutant of process_graphic_element: the notification is pushed whether or
\* not the thumbnail changed.
process_graphic_element_always_notify(acc, parent_network_node_id, graphic_element, update_thumbnails) ==
    IF ~update_thumbnails THEN acc
    ELSE [acc EXCEPT
            !.thumbnail_renders =
                (parent_network_node_id :> RenderThumbnail(graphic_element)) @@ @,
            !.responses = Append(@, [msg |-> "UpdateNodeThumbnail",
                                     id |-> parent_network_node_id])]

\* NodeRuntime::process_graphic_element.
process_graphic_element(acc, parent_network_node_id, graphic_element, update_thumbnails) ==
    IF ~update_thumbnails THEN acc
    ELSE LET new_thumbnail_svg == RenderThumbnail(graphic_element)
             old_thumbnail_svg ==
                 IF parent_network_node_id \in DOMAIN acc.thumbnail_renders
                 THEN acc.thumbnail_renders[parent_network_node_id] ELSE <<>>
         IN  IF old_thumbnail_svg # new_thumbnail_svg
             THEN [acc EXCEPT
                     !.thumbnail_renders =
                         (parent_network_node_id :> new_thumbnail_svg) @@ @,
                     !.responses = Append(@, [msg |-> "UpdateNodeThumbnail",
                                              id |-> parent_network_node_id])]
             ELSE [acc EXCEPT
                     !.thumbnail_renders =
                         (parent_network_node_id :> old_thumbnail_svg) @@ @]

\* Lines 295-331: one monitor of the sweep.
ProcessMonitorNode(rt, acc, monitor_node_path, update_thumbnails) ==
    LET introspected_data == ExecutorIntrospect(rt.executor, monitor_node_path)
        parent_network_node_id == monitor_node_path[Len(monitor_node_path) - 1]
    IN  IF /\ rt.inspect_state # None
           /\ monitor_node_path # <<>>
           /\ Last(monitor_node_path) = rt.inspect_state[1].monitor_node
        THEN acc
        ELSE IF Len(monitor_node_path) < 2 THEN acc
        ELSE IF ~introspected_data.ok THEN acc
        ELSE IF introspected_data.val.tag \in {"GraphicElement", "Artboard"}
        THEN process_graphic_element(acc, parent_network_node_id,
                                     introspected_data.val, update_thumbnails)
        ELSE IF introspected_data.val.tag = "VectorDataTable"
        THEN [acc EXCEPT !.vector_modify =
                 (parent_network_node_id :> introspected_data.val) @@ @]
        ELSE acc

RECURSIVE SweepMonitorNodes(_, _, _, _)
SweepMonitorNodes(rt, acc, paths, update_thumbnails) ==
    IF paths = <<>> THEN acc
    ELSE SweepMonitorNodes(rt, ProcessMonitorNode(rt, acc, Head(paths), update_thumbnails),
                           Tail(paths), update_thumbnails)

\* Mutant of process_monitor_nodes: the sweep stops at the first monitor
\* whose introspection fails or that has no parent node.
process_monitor_nodes_abort_on_failure(rt, update_thumbnails) ==
    LET retained == {id \in DOMAIN rt.thumbnail_renders :
                        \E i \in DOMAIN rt.monitor_nodes :
                            id \in Range(rt.monitor_nodes[i])}
        failing == {i \in DOMAIN rt.monitor_nodes :
                       \/ Len(rt.monitor_nodes[i]) < 2
                       \/ ~ExecutorIntrospect(rt.executor, rt.monitor_nodes[i]).ok}
        swept_until == IF failing = {} THEN Len(rt.monitor_nodes)
                       ELSE (CHOOSE i \in failing : \A j \in failing : i <= j) - 1
    IN  SweepMonitorNodes(rt,
            [thumbnail_renders |-> [id \in retained |-> rt.thumbnail_renders[id]],
             vector_modify |-> rt.vector_modify,
             responses |-> <<>>],
            SubSeq(rt.monitor_nodes, 1, swept_until), update_thumbnails)

\* NodeRuntime::process_monitor_nodes: the caches afterwards and the
\* frontend messages pushed.
process_monitor_nodes(rt, update_thumbnails) ==
    LET retained == {id \in DOMAIN rt.thumbnail_renders :
                        \E i \in DOMAIN rt.monitor_nodes :
                            id \in Range(rt.monitor_nodes[i])}
    IN  SweepMonitorNodes(rt,
            [thumbnail_renders |-> [id \in retained |-> rt.thumbnail_renders[id]],
             vector_modify |-> rt.vector_modify,
             responses |-> <<>>],
            rt.monitor_nodes, update_thumbnails)

\* InspectState::access.
InspectAccess(state, executor) ==
    LET introspected_data == ExecutorIntrospect(executor, <<state.monitor_node>>)
    IN  Some([inspect_node |-> state.inspect_node,
              introspected_data |-> IF introspected_data.ok
                                    THEN Some(introspected_data.val) ELSE None])

\* Ids of the execution requests of a drained batch that a later execution
\* request of the same batch overwrote.
SupersededIds(queue) ==
    {queue[i].execution_id : i \in {j \in DOMAIN queue :
        /\ queue[j].kind = "ExecutionRequest"
        /\ \E k \in DOMAIN queue : k > j /\ queue[k].kind = "ExecutionRequest"}}

\* run_node_graph and lines 157-180 of run(): takes the lock, sets up the
\* application io and drains the request channel into this iteration's
\* requests.
RunDrain ==
    /\ pc = "idle"
    /\ pc' = "run"
    /\ runtime' = [runtime EXCEPT !.editor_api.application_io = TRUE]
    /\ requests' = RunRequests(SubSeq(request_channel, 1, DrainCount(request_channel)))
    /\ request_channel' =
           SubSeq(request_channel, DrainCount(request_channel) + 1, Len(request_channel))
    /\ drained' = SubSeq(request_channel, 1, DrainCount(request_channel))
    /\ iter_sent' = <<>>
    /\ superseded' = superseded \cup SupersededIds(drained')
    /\ UNCHANGED <<response_channel, next_uuid>>
    /\ UNCHANGED client_vars
    /\ UNCHANGED editor_vars

\* The iteration is cut short by a panic: run() never returns.
Panicked ==
    /\ pc' = "panicked"
    /\ requests' = <<>>

\* Mutant of ProcessFontCacheUpdate: the result of the recompile is sent to
\* the client like that of a graph update.
ProcessFontCacheUpdateReported ==
    /\ pc = "run"
    /\ requests # <<>>
    /\ Head(requests).kind = "FontCacheUpdate"
    /\ LET rt1 == [runtime EXCEPT !.editor_api.font_cache = Head(requests).font_cache,
                                  !.editor_api.editor_preferences = runtime.editor_preferences]
           recompiled == update_network(rt1, rt1.old_graph[1])
       IN  IF rt1.old_graph = None
           THEN /\ runtime' = rt1 /\ requests' = Tail(requests) /\ pc' = pc
                /\ UNCHANGED response_channel
           ELSE IF recompiled.panic
           THEN runtime' = rt1 /\ Panicked /\ UNCHANGED response_channel
           ELSE /\ runtime' = recompiled.rt /\ requests' = Tail(requests) /\ pc' = pc
                /\ response_channel' =
                       Append(response_channel,
                              CompilationResponse(recompiled.result,
                                                  recompiled.rt.node_graph_errors))
    /\ UNCHANGED <<request_channel, next_uuid, drained, iter_sent, superseded>>
    /\ UNCHANGED client_vars
    /\ UNCHANGED editor_vars

\* Lines 184-196: a font cache update.
ProcessFontCacheUpdate ==
    /\ pc = "run"
    /\ requests # <<>>
    /\ Head(requests).kind = "FontCacheUpdate"
    /\ LET rt1 == [runtime EXCEPT !.editor_api.font_cache = Head(requests).font_cache,
                                  !.editor_api.editor_preferences = runtime.editor_preferences]
           recompiled == update_network(rt1, rt1.old_graph[1])
       IN  IF rt1.old_graph = None
           THEN runtime' = rt1 /\ requests' = Tail(requests) /\ pc' = pc
           ELSE IF recompiled.panic
           THEN runtime' = rt1 /\ Panicked
           ELSE runtime' = recompiled.rt /\ requests' = Tail(requests) /\ pc' = pc
    /\ UNCHANGED <<request_channel, response_channel, next_uuid, drained, iter_sent, superseded>>
    /\ UNCHANGED client_vars
    /\ UNCHANGED editor_vars

\* Lines 197-210: an editor preferences update.
ProcessEditorPreferencesUpdate ==
    /\ pc = "run"
    /\ requests # <<>>
    /\ Head(requests).kind = "EditorPreferencesUpdate"
    /\ LET rt1 == [runtime EXCEPT !.editor_preferences = Head(requests).preferences,
                                  !.editor_api.editor_preferences = Head(requests).preferences]
           recompiled == update_network(rt1, rt1.old_graph[1])
       IN  IF rt1.old_graph = None
           THEN runtime' = rt1 /\ requests' = Tail(requests) /\ pc' = pc
           ELSE IF recompiled.panic
           THEN runtime' = rt1 /\ Panicked
           ELSE runtime' = recompiled.rt /\ requests' = Tail(requests) /\ pc' = pc
    /\ UNCHANGED <<request_channel, response_channel, next_uuid, drained, iter_sent, superseded>>
    /\ UNCHANGED client_vars
    /\ UNCHANGED editor_vars

\* Mutant of ProcessGraphUpdate: the graph is stored as it was received,
\* before the inspect monitor is spliced in.
ProcessGraphUpdateStoresReceived ==
    /\ pc = "run"
    /\ requests # <<>>
    /\ Head(requests).kind = "GraphUpdate"
    /\ LET request == Head(requests)
           inspected == request.inspect_node # None
           monitor_id == next_uuid
           network == IF inspected
                      THEN MonitorInspectNetwork(request.network, request.inspect_node[1], monitor_id)
                      ELSE request.network
           rt1 == [runtime EXCEPT
                     !.inspect_state =
                         IF inspected
                         THEN Some(NewInspectState(request.inspect_node[1], monitor_id))
                         ELSE None,
                     !.old_graph = Some(request.network),
                     !.node_graph_errors = <<>>]
           compiled == update_network(rt1, network)
           response == CompilationResponse(compiled.result, compiled.rt.node_graph_errors)
       IN  /\ next_uuid' = IF inspected THEN next_uuid + 1 ELSE next_uuid
           /\ IF compiled.panic
              THEN /\ runtime' = compiled.rt
                   /\ Panicked
                   /\ UNCHANGED <<response_channel, iter_sent>>
              ELSE /\ runtime' = [compiled.rt EXCEPT !.update_thumbnails = TRUE]
                   /\ response_channel' = Append(response_channel, response)
                   /\ iter_sent' = Append(iter_sent, [request |-> request, response |-> response])
                   /\ requests' = Tail(requests)
                   /\ pc' = pc
    /\ UNCHANGED <<request_channel, drained, superseded>>
    /\ UNCHANGED client_vars
    /\ UNCHANGED editor_vars

\* Lines 211-223: a graph update.
ProcessGraphUpdate ==
    /\ pc = "run"
    /\ requests # <<>>
    /\ Head(requests).kind = "GraphUpdate"
    /\ LET request == Head(requests)
           inspected == request.inspect_node # None
           monitor_id == next_uuid
           network == IF inspected
                      THEN MonitorInspectNetwork(request.network, request.inspect_node[1], monitor_id)
                      ELSE request.network
           rt1 == [runtime EXCEPT
                     !.inspect_state =
                         IF inspected
                         THEN Some(NewInspectState(request.inspect_node[1], monitor_id))
                         ELSE None,
                     !.old_graph = Some(network),
                     !.node_graph_errors = <<>>]
           compiled == update_network(rt1, network)
           response == CompilationResponse(compiled.result, compiled.rt.node_graph_errors)
       IN  /\ next_uuid' = IF inspected THEN next_uuid + 1 ELSE next_uuid
           /\ IF compiled.panic
              THEN /\ runtime' = compiled.rt
                   /\ Panicked
                   /\ UNCHANGED <<response_channel, iter_sent>>
              ELSE /\ runtime' = [compiled.rt EXCEPT !.update_thumbnails = TRUE]
                   /\ response_channel' = Append(response_channel, response)
                   /\ iter_sent' = Append(iter_sent, [request |-> request, response |-> response])
                   /\ requests' = Tail(requests)
                   /\ pc' = pc
    /\ UNCHANGED <<request_channel, drained, superseded>>
    /\ UNCHANGED client_vars
    /\ UNCHANGED editor_vars

\* Lines 224-244: an execution request.
ProcessExecutionRequest ==
    /\ pc = "run"
    /\ requests # <<>>
    /\ Head(requests).kind = "ExecutionRequest"
    /\ LET request == Head(requests)
           transform == request.render_config.transform
           executed == execute_network(runtime, request.render_config)
           rt1 == [runtime EXCEPT !.executor = executed.executor]
           swept == process_monitor_nodes(rt1, rt1.update_thumbnails)
           rt2 == [rt1 EXCEPT !.thumbnail_renders = swept.thumbnail_renders,
                              !.vector_modify = swept.vector_modify,
                              !.update_thumbnails = FALSE]
           inspect_result == IF rt2.inspect_state = None THEN None
                             ELSE InspectAccess(rt2.inspect_state[1], rt2.executor)
           response == ExecutionResponse(request.execution_id, executed.result,
                                         swept.responses, transform,
                                         rt2.vector_modify, inspect_result)
       IN  /\ runtime' = rt2
           /\ response_channel' = Append(response_channel, response)
           /\ iter_sent' = Append(iter_sent, [request |-> request, response |-> response])
    /\ requests' = Tail(requests)
    /\ UNCHANGED <<request_channel, pc, next_uuid, drained, superseded>>
    /\ UNCHANGED client_vars
    /\ UNCHANGED editor_vars

\* run() returns and run_node_graph releases the lock.
RunReturn ==
    /\ pc = "run"
    /\ requests = <<>>
    /\ pc' = "idle"
    /\ drained' = <<>>
    /\ iter_sent' = <<>>
    /\ UNCHANGED <<request_channel, response_channel, runtime, requests, next_uuid,
                   superseded>>
    /\ UNCHANGED client_vars
    /\ UNCHANGED editor_vars

(***************************************************************************)
(* NodeGraphExecutor.                                                      *)
(***************************************************************************)
\* NodeNetwork::current_hash: a content hash, equal for equal networks.
current_hash(network) ==
    CHOOSE i \in DOMAIN (DocList \o TestDocList) : (DocList \o TestDocList)[i] = network

\* Mutant of NeedsGraphUpdate: a change of the inspect node alone does not
\* refresh the graph.
NeedsGraphUpdateHashOnly(executor, network_hash, inspect_node, ignore_hash) ==
    \/ network_hash # executor.node_graph_hash
    \/ ignore_hash

\* Line 568: whether update_node_graph refreshes the graph.
NeedsGraphUpdate(executor, network_hash, inspect_node, ignore_hash) ==
    \/ network_hash # executor.node_graph_hash
    \/ executor.old_inspect_node # inspect_node
    \/ ignore_hash

\* NodeGraphExecutor::update_node_graph: the handle afterwards and the
\* messages it sends.
update_node_graph(executor, network, inspect_node, ignore_hash) ==
    LET network_hash == current_hash(network)
    IN  IF NeedsGraphUpdate(executor, network_hash, inspect_node, ignore_hash)
        THEN [executor |-> [executor EXCEPT !.old_inspect_node = inspect_node,
                                            !.node_graph_hash = network_hash],
              sent |-> <<GraphUpdate(network, inspect_node)>>]
        ELSE [executor |-> executor, sent |-> <<>>]

\* Mutant of ExecutionContext: the export configuration is not stored.
ExecutionContextWithoutExport(export_config) == [export_config |-> None]

\* The ExecutionContext stored in `futures`.
ExecutionContext(export_config) == [export_config |-> export_config]

\* Lines 580-594 and 632-643: the render configuration of a request.
PreviewRenderConfig == [for_export |-> FALSE, transform |-> "document_to_viewport"]

ExportRenderConfig == [for_export |-> TRUE, transform |-> "export_bounds"]

\* Mutant of FuturesInsert: the context is not recorded.
FuturesInsertNothing(futures, execution_id, context) == futures

\* Mutant of FuturesInsert: the new context replaces the map.
FuturesInsertOnly(futures, execution_id, context) == (execution_id :> context)

\* futures.insert.
FuturesInsert(futures, execution_id, context) == (execution_id :> context) @@ futures

\* futures.remove: the map without the id.
FuturesRemove(futures, execution_id) ==
    [id \in DOMAIN futures \ {execution_id} |-> futures[id]]

\* NodeGraphExecutor::submit_node_graph_evaluation: update_node_graph, then
\* submit_current_node_graph_evaluation (queue_execution and futures.insert).
SubmitNodeGraphEvaluationWithin(bound, network, inspect_node, ignore_hash) ==
    /\ lock_wait = "none"
    /\ ops < bound
    /\ ops' = ops + 1
    /\ LET updated == update_node_graph(client, network, inspect_node, ignore_hash)
           execution_id == next_uuid
           context == ExecutionContext(None)
       IN  /\ request_channel' = request_channel \o updated.sent
                                 \o <<ExecutionRequest(execution_id, PreviewRenderConfig)>>
           /\ client' = [updated.executor EXCEPT
                            !.futures = FuturesInsert(@, execution_id, context)]
           /\ submitted' = (execution_id :> "preview") @@ submitted
           /\ graph_log' = Logged(graph_log, updated.sent, execution_id)
    /\ next_uuid' = next_uuid + 1
    /\ UNCHANGED <<response_channel, document, poll_out>>
    /\ UNCHANGED runtime_vars
    /\ UNCHANGED editor_vars

SubmitNodeGraphEvaluation(network, inspect_node, ignore_hash) ==
    SubmitNodeGraphEvaluationWithin(MaxOps, network, inspect_node, ignore_hash)

\* NodeGraphExecutor::submit_current_node_graph_evaluation on its own, as
\* the editor tests call it after update_node_graph_instrumented.
SubmitCurrentNodeGraphEvaluation ==
    /\ lock_wait = "none"
    /\ ops < MaxOps
    /\ ops' = ops + 1
    /\ LET execution_id == next_uuid
           context == ExecutionContext(None)
       IN  /\ request_channel' =
                  Append(request_channel, ExecutionRequest(execution_id, PreviewRenderConfig))
           /\ client' = [client EXCEPT !.futures = FuturesInsert(@, execution_id, context)]
           /\ submitted' = (execution_id :> "preview") @@ submitted
           /\ graph_log' = Logged(graph_log, <<>>, execution_id)
    /\ next_uuid' = next_uuid + 1
    /\ UNCHANGED <<response_channel, document, poll_out>>
    /\ UNCHANGED runtime_vars
    /\ UNCHANGED editor_vars

\* NodeGraphExecutor::update_node_graph_instrumented.
UpdateNodeGraphInstrumented ==
    /\ lock_wait = "none"
    /\ ops < MaxOps
    /\ ops' = ops + 1
    /\ document_network # None
    /\ LET added == InstrumentedNew(document_network[1], next_uuid + 1)
       IN  /\ client' = [client EXCEPT !.node_graph_hash = next_uuid]
           /\ request_channel' = Append(request_channel, GraphUpdate(added.network, None))
           /\ instrumented' = Some(added.instrumented)
           /\ next_uuid' = added.next_id
           /\ graph_log' = [graph_log EXCEPT
                               !.sent = Append(@, GraphUpdate(added.network, None))]
    /\ UNCHANGED <<response_channel, document, poll_out, submitted>>
    /\ UNCHANGED <<lock_wait, document_network, grabbed, looked_up, path_tool>>
    /\ UNCHANGED runtime_vars

\* A test reads the runtime through Instrumented::grab_all_input and
\* collects what the iterator yields.
GrabAllInput(input) ==
    /\ lock_wait = "none"
    /\ instrumented # None
    /\ pc # "run"
    /\ grabbed' = Some([input |-> input,
                        result |-> grab_all_input(instrumented[1], runtime.executor, input)])
    /\ UNCHANGED <<request_channel, response_channel, next_uuid>>
    /\ UNCHANGED <<runtime_vars, client_vars, lock_wait, document_network, instrumented,
                   looked_up, path_tool>>

\* A test reads the runtime through Instrumented::grab_protonode_input.
GrabProtonodeInput(path, input) ==
    /\ lock_wait = "none"
    /\ instrumented # None
    /\ pc # "run"
    /\ looked_up' = Some([by |-> "path", path |-> path, layer |-> 0, input |-> input,
                          result |-> grab_protonode_input(instrumented[1], runtime.executor,
                                                          path, input)])
    /\ UNCHANGED <<request_channel, response_channel, next_uuid>>
    /\ UNCHANGED <<runtime_vars, client_vars, lock_wait, document_network, instrumented,
                   grabbed, path_tool>>

\* A test reads the runtime through Instrumented::grab_input_from_layer.
GrabInputFromLayer(layer, input) ==
    /\ lock_wait = "none"
    /\ instrumented # None
    /\ pc # "run"
    /\ layer \in DOMAIN document_network[1].nodes
    /\ looked_up' = Some([by |-> "layer", path |-> <<>>, layer |-> layer, input |-> input,
                          result |-> grab_input_from_layer(instrumented[1], runtime.executor,
                                                           document_network[1], layer, input)])
    /\ UNCHANGED <<request_channel, response_channel, next_uuid>>
    /\ UNCHANGED <<runtime_vars, client_vars, lock_wait, document_network, instrumented,
                   grabbed, path_tool>>

\* NodeGraphExecutor::submit_document_export.
SubmitDocumentExportWithin(bound, network, file_type, has_bounds) ==
    /\ lock_wait = "none"
    /\ ops < bound
    /\ IF ~has_bounds
       THEN UNCHANGED <<request_channel, client, submitted, graph_log, next_uuid, ops>>
       ELSE LET execution_id == next_uuid
                context == ExecutionContext(Some([file_type |-> file_type]))
            IN  /\ request_channel' = request_channel
                                      \o <<GraphUpdate(network, None),
                                           ExecutionRequest(execution_id, ExportRenderConfig)>>
                /\ client' = [client EXCEPT
                                 !.futures = FuturesInsert(@, execution_id, context)]
                /\ submitted' = (execution_id :> "export") @@ submitted
                /\ graph_log' = Logged(graph_log, <<GraphUpdate(network, None)>>,
                                       execution_id)
                /\ next_uuid' = next_uuid + 1
                /\ ops' = ops + 1
    /\ UNCHANGED <<response_channel, document, poll_out>>
    /\ UNCHANGED runtime_vars
    /\ UNCHANGED editor_vars

SubmitDocumentExport(network, file_type, has_bounds) ==
    SubmitDocumentExportWithin(MaxOps, network, file_type, has_bounds)

\* NodeGraphExecutor::update_font_cache.
UpdateFontCache(font_cache) ==
    /\ lock_wait = "none"
    /\ ops < MaxOps
    /\ ops' = ops + 1
    /\ request_channel' = Append(request_channel, FontCacheUpdate(font_cache))
    /\ UNCHANGED <<response_channel, client, document, poll_out, submitted, graph_log, next_uuid>>
    /\ UNCHANGED runtime_vars
    /\ UNCHANGED editor_vars

\* NodeGraphExecutor::update_editor_preferences.
UpdateEditorPreferences(preferences) ==
    /\ lock_wait = "none"
    /\ ops < MaxOps
    /\ ops' = ops + 1
    /\ request_channel' = Append(request_channel, EditorPreferencesUpdate(preferences))
    /\ UNCHANGED <<response_channel, client, document, poll_out, submitted, graph_log, next_uuid>>
    /\ UNCHANGED runtime_vars
    /\ UNCHANGED editor_vars

\* NodeGraphExecutor::export: the messages it adds, or its error.
export(node_graph_output, export_config) ==
    IF node_graph_output.tag # "RenderOutput::Svg"
    THEN Err("Incorrect render type for exporting (expected RenderOutput::Svg)")
    ELSE IF export_config.file_type = "Svg"
    THEN Ok(<<"FrontendMessage::TriggerDownloadTextFile">>)
    ELSE Ok(<<"FrontendMessage::TriggerDownloadImage">>)

\* NodeGraphExecutor::process_node_graph_output: the messages it adds, or
\* its error.
process_node_graph_output(node_graph_output) ==
    LET tail == <<"Message::EndBuffer", "DocumentMessage::RenderScrollbars",
                  "DocumentMessage::RenderRulers", "OverlaysMessage::Draw">>
    IN  IF node_graph_output.tag \in {"RenderOutput::Svg", "RenderOutput::CanvasFrame", "F64",
                                  "Bool", "String", "DVec2", "OptionalColor", "VectorData",
                                  "GraphicGroup", "ImageFrame", "Palette"}
        THEN Ok(<<"FrontendMessage::UpdateDocumentArtwork">> \o tail)
        ELSE Err("Invalid node graph output type")

\* Which of the two output steps an execution context selects (line 720).
OutputStep(execution_context) ==
    IF execution_context.export_config # None THEN "export" ELSE "process_node_graph_output"

\* Lines 694-733: one ExecutionResponse. `st` is the handle, the document
\* and what the poll has produced so far; `ret` is the value a `return` or
\* `?` leaves the poll with, None while the poll goes on.
HandleExecutionResponse(st, response) ==
    LET st1 == [st EXCEPT !.responses = Append(@, "OverlaysMessage::Draw")]
        node_graph_output == response.result.val
        st2 == [st1 EXCEPT
                  !.responses = @ \o [i \in DOMAIN response.responses |->
                                         response.responses[i].msg],
                  !.document.vector_modify = response.vector_modify]
        known == response.execution_id \in DOMAIN st2.client.futures
        execution_context == st2.client.futures[response.execution_id]
        st3 == [st2 EXCEPT !.client.futures = FuturesRemove(@, response.execution_id)]
        step == OutputStep(execution_context)
        output == IF step = "export"
                  THEN export(node_graph_output, execution_context.export_config[1])
                  ELSE process_node_graph_output(node_graph_output)
        st4 == [st3 EXCEPT !.routed = Append(@, [execution_id |-> response.execution_id,
                                                 step |-> step])]
        st5 == [st4 EXCEPT !.responses = @ \o output.val]
    IN  IF ~response.result.ok
        THEN [st1 EXCEPT !.document.click_targets = {},
                         !.document.vector_modify = <<>>,
                         !.ret = Some(Err("Node graph evaluation failed"))]
        ELSE IF ~known
        THEN [st2 EXCEPT !.ret = Some(Err("Invalid generation ID"))]
        ELSE IF ~output.ok
        THEN [st4 EXCEPT !.ret = Some(output)]
        ELSE IF st5.client.old_inspect_node # None /\ response.inspect_result # None
        THEN [st5 EXCEPT !.responses = Append(@, "SpreadsheetMessage::UpdateLayout")]
        ELSE st5

\* Mutant of HandleCompilationResponse: a failed compile is reported but the
\* document keeps its click targets and vector-modify cache.
HandleCompilationResponseKeepCaches(st, response) ==
    LET st1 == [st EXCEPT !.responses = @ \o <<"NodeGraphMessage::UpdateTypes",
                                               "NodeGraphMessage::SendGraph">>]
    IN  IF ~response.result.ok
        THEN [st1 EXCEPT !.ret = Some(Err("Node graph evaluation failed"))]
        ELSE st1

\* Lines 734-761: one CompilationResponse.
HandleCompilationResponse(st, response) ==
    LET st1 == [st EXCEPT !.responses = @ \o <<"NodeGraphMessage::UpdateTypes",
                                               "NodeGraphMessage::SendGraph">>]
    IN  IF ~response.result.ok
        THEN [st1 EXCEPT !.document.click_targets = {},
                         !.document.vector_modify = <<>>,
                         !.ret = Some(Err("Node graph evaluation failed"))]
        ELSE st1

\* Lines 693-765: the match on one response.
HandleResponse(st, response) ==
    CASE response.kind = "ExecutionResponse" -> HandleExecutionResponse(st, response)
      [] response.kind = "CompilationResponse" -> HandleCompilationResponse(st, response)
      [] OTHER -> [st EXCEPT !.responses = Append(@, "PropertiesPanelMessage::Refresh")]

RECURSIVE HandleResults(_, _)
\* Lines 692-767: the loop over the collected results; a `return` or `?`
\* inside the loop ends the poll.
HandleResults(st, results) ==
    IF results = <<>> \/ st.ret # None THEN st
    ELSE LET response == Head(results)
             execution == response.kind = "ExecutionResponse"
             entry == [kind |-> response.kind,
                       execution_id |-> IF execution THEN response.execution_id ELSE 0,
                       known |-> execution /\ response.execution_id \in DOMAIN st.client.futures,
                       ok |-> response.kind = "NodeGraphUpdateMessage" \/ response.result.ok]
         IN  HandleResults([HandleResponse(st, response) EXCEPT !.handled = Append(@, entry)],
                           Tail(results))

\* NodeGraphExecutor::poll_node_graph_evaluation.
PollNodeGraphEvaluation ==
    LET results == response_channel
        polled == HandleResults([client |-> client, document |-> document,
                                 responses |-> <<>>, routed |-> <<>>,
                                 ret |-> None, handled |-> <<>>], results)
    IN  /\ lock_wait = "none"
        /\ response_channel' = <<>>
        /\ client' = polled.client
        /\ document' = polled.document
        /\ poll_out' = [result |-> IF polled.ret = None THEN Ok("()") ELSE polled.ret[1],
                        responses |-> polled.responses,
                        routed |-> polled.routed,
                        drained |-> Len(results),
                        handled |-> polled.handled,
                        document_before |-> document]
        /\ UNCHANGED <<request_channel, next_uuid, ops, submitted, graph_log>>
        /\ UNCHANGED runtime_vars
        /\ UNCHANGED editor_vars

(***************************************************************************)
(* The system: the editor thread drives the client handle, the runtime     *)
(* loop runs beside it.                                                    *)
(***************************************************************************)
Next ==
    \/ \E network \in Docs, inspect_node \in InspectNodes, ignore_hash \in BOOLEAN :
          SubmitNodeGraphEvaluation(network, inspect_node, ignore_hash)
    \/ \E network \in Docs, file_type \in FileTypes, has_bounds \in BOOLEAN :
          SubmitDocumentExport(network, file_type, has_bounds)
    \/ \E font_cache \in FontCaches : UpdateFontCache(font_cache)
    \/ \E preferences \in Preferences : UpdateEditorPreferences(preferences)
    \/ PollNodeGraphEvaluation
    \/ RunDrain
    \/ ProcessFontCacheUpdate
    \/ ProcessEditorPreferencesUpdate
    \/ ProcessGraphUpdate
    \/ ProcessExecutionRequest
    \/ RunReturn

Spec == Init /\ [][Next]_vars

(***************************************************************************)
(* A long editing session seen from the runtime: the messages the handle   *)
(* sends, in any order, and run() working them off.                        *)
(***************************************************************************)
\* The number of messages of the session.
MaxRequests == 4

\* The messages the handle can send next (lines 512, 521, 526, 558, 573
\* and 648).
SessionRequests ==
    {GraphUpdate(network, inspect_node) :
        network \in SessionDocs, inspect_node \in InspectNodes}
    \cup {ExecutionRequest(next_uuid, PreviewRenderConfig)}
    \cup {FontCacheUpdate(font_cache) : font_cache \in FontCaches}
    \cup {EditorPreferencesUpdate(preferences) : preferences \in Preferences}

\* self.sender.send(message): the message is queued for the runtime.
SendRequest(message) ==
    /\ lock_wait = "none"
    /\ ops < MaxRequests
    /\ ops' = ops + 1
    /\ request_channel' = Append(request_channel, message)
    /\ next_uuid' = IF message.kind = "ExecutionRequest" THEN next_uuid + 1 ELSE next_uuid
    /\ UNCHANGED <<response_channel, client, document, poll_out, submitted, graph_log>>
    /\ UNCHANGED runtime_vars
    /\ UNCHANGED editor_vars

NextRuntime ==
    \/ \E message \in SessionRequests : SendRequest(message)
    \/ RunDrain
    \/ ProcessFontCacheUpdate
    \/ ProcessEditorPreferencesUpdate
    \/ ProcessGraphUpdate
    \/ ProcessExecutionRequest
    \/ RunReturn

SpecRuntime == Init /\ [][NextRuntime]_vars

(***************************************************************************)
(* An inspect subscription: the editor keeps one node of an unchanged      *)
(* document selected for inspection, evaluates it again and again and      *)
(* exports it in between.                                                  *)
(***************************************************************************)
MaxSubscriptionOps == 3

\* The document that stays as it is, and the node inspected in it.
SubscriptionDoc == DocRender

SubscriptionInspectNode == Some(1)

NextSubscription ==
    \/ SubmitNodeGraphEvaluationWithin(MaxSubscriptionOps, SubscriptionDoc,
                                       SubscriptionInspectNode, FALSE)
    \/ \E file_type \in FileTypes :
          SubmitDocumentExportWithin(MaxSubscriptionOps, SubscriptionDoc, file_type, TRUE)
    \/ PollNodeGraphEvaluation
    \/ RunDrain
    \/ ProcessGraphUpdate
    \/ ProcessExecutionRequest
    \/ RunReturn

SpecSubscription == Init /\ [][NextSubscription]_vars

(***************************************************************************)
(* The path tool (path_tool.rs): PathToolFsmState::transition over the     *)
(* messages the tool receives. What the document and the shape editor      *)
(* answer (a point or a segment near the pointer, a layer under it, keys    *)
(* held) comes with the message as the set `on` of the answers that hold.  *)
(***************************************************************************)
MaxToolEvents == 4

\* What a handler leaves: the next FSM state, the tool data, the
\* DocumentMessages added to `responses` and the warnings logged.
Handled(state, tool_data, document_messages, warnings) ==
    [state |-> state, tool_data |-> tool_data,
     document_messages |-> document_messages, warnings |-> warnings]

\* PathToolData::start_insertion.
start_insertion(tool_data, segment) ==
    Handled("InsertPoint",
            [tool_data EXCEPT !.segment = Some(segment)],
            <<>>,
            IF tool_data.segment # None
            THEN <<"Segment was Some before start_insertion">> ELSE <<>>)

\* PathToolData::end_insertion; kind is "Abort" or "Add".
end_insertion(tool_data, kind) ==
    LET commit_transaction == tool_data.segment # None /\ kind = "Add"
    IN  Handled("Ready",
                [tool_data EXCEPT !.segment = None, !.delete_segment_pressed = FALSE],
                IF commit_transaction THEN <<"EndTransaction">> ELSE <<"AbortTransaction">>,
                IF tool_data.segment = None
                THEN <<"Segment was None before end_insertion">> ELSE <<>>)

\* PathToolData::update_insertion.
update_insertion(tool_data, too_far) ==
    IF tool_data.segment # None
    THEN IF too_far THEN end_insertion(tool_data, "Abort")
         ELSE Handled("InsertPoint", tool_data, <<>>, <<>>)
    ELSE Handled("Ready", tool_data, <<>>, <<"Segment was None on update_insertion">>)

\* PathToolData::mouse_down.
mouse_down(tool_data, on) ==
    LET data == [tool_data EXCEPT !.double_click_handled = FALSE]
    IN  IF "point_found" \in on
        THEN Handled("Dragging", data, <<"StartTransaction">>, <<>>)
        ELSE IF "layer_clicked" \in on
        THEN Handled("Dragging", data, <<"StartTransaction">>, <<>>)
        ELSE Handled(IF "lasso_select" \in on THEN "DrawingLasso" ELSE "DrawingBox",
                     data, <<>>, <<>>)

Drawing == {"DrawingBox", "DrawingLasso"}

\* PathToolFsmState::transition: the match on (self, event), arm by arm in
\* the order of the source.
transition(self, event, tool_data) ==
    LET kind == event.kind
        on == event.on
        Stay == Handled(self, tool_data, <<>>, <<>>)
        Ready == Handled("Ready", tool_data, <<>>, <<>>)
    IN  IF kind = "SelectionChanged" THEN Stay
        ELSE IF kind = "Overlays"
        THEN IF self = "InsertPoint"
             THEN update_insertion(tool_data, "too_far" \in on)
             ELSE Stay
        ELSE IF self = "InsertPoint" /\ kind = "MouseDown"
        THEN LET data == [tool_data EXCEPT !.double_click_handled = TRUE]
             IN  IF "delete_segment" \in on
                 THEN Handled("Ready", data,
                              IF data.segment # None /\ "vector_data" \in on
                              THEN <<"EndTransaction">> ELSE <<>>,
                              <<>>)
                 ELSE end_insertion(data, "Add")
        ELSE IF self = "InsertPoint" /\ kind = "PointerMove"
        THEN LET data == [tool_data EXCEPT !.delete_segment_pressed = "lock_angle" \in on]
             IN  IF "near_point" \in on
                 THEN Handled("Ready", data, <<>>, <<>>)
                 ELSE Handled(self, data, <<>>, <<>>)
        ELSE IF self = "InsertPoint" /\ kind \in {"Escape", "Delete", "RightClick"}
        THEN end_insertion(tool_data, "Abort")
        ELSE IF self = "InsertPoint" /\ kind = "GRS"
        THEN Handled("InsertPoint", tool_data, <<>>, <<>>)
        ELSE IF kind = "MouseDown" THEN mouse_down(tool_data, on)
        ELSE IF self \in Drawing /\ kind = "PointerMove" THEN Stay
        ELSE IF self = "Dragging" /\ kind = "PointerMove" THEN Stay
        ELSE IF self = "Ready" /\ kind = "PointerMove"
        THEN IF "near_point" \in on THEN Stay
             ELSE IF "near_segment" \in on
             THEN LET data == IF "lock_angle" \in on
                              THEN [tool_data EXCEPT !.delete_segment_pressed = TRUE]
                              ELSE tool_data
                      started == start_insertion(data, "closed_segment")
                  IN  [started EXCEPT !.document_messages = <<"StartTransaction">> \o @]
             ELSE Stay
        ELSE IF kind = "PointerOutsideViewport" THEN Stay
        ELSE IF self \in Drawing /\ kind = "Enter" THEN Ready
        ELSE IF self = "Dragging" /\ kind \in {"Escape", "RightClick"}
        THEN Handled("Ready", tool_data, <<"AbortTransaction">>, <<>>)
        ELSE IF self \in Drawing /\ kind \in {"Escape", "RightClick"} THEN Ready
        ELSE IF self \in Drawing /\ kind = "DragStop" THEN Ready
        ELSE IF kind = "DragStop"
        THEN Handled("Ready", tool_data, <<"EndTransaction">>, <<>>)
        ELSE IF kind = "Delete"
        THEN Handled("Ready", tool_data, <<"AddTransaction">>, <<>>)
        ELSE IF kind \in {"BreakPath", "DeleteAndBreakPath"} THEN Ready
        ELSE IF kind = "FlipSmoothSharp"
        THEN IF /\ "near_point" \in on
                /\ ~tool_data.double_click_handled
                /\ "within_drag_threshold" \in on
             THEN Handled("Ready", tool_data, <<"StartTransaction", "EndTransaction">>, <<>>)
             ELSE Ready
        ELSE IF kind \in {"Abort", "NudgeSelectedPoints", "SelectAllAnchors",
                          "DeselectAllPoints", "SelectedPointXChanged",
                          "SelectedPointYChanged"}
        THEN Ready
        ELSE IF kind = "SelectedPointUpdated" THEN Stay
        ELSE IF kind \in {"ManipulatorMakeHandlesColinear", "ManipulatorMakeHandlesFree"}
        THEN Handled("Ready", tool_data, <<"StartTransaction", "EndTransaction">>, <<>>)
        ELSE Ready

\* PathTool::process_message: three messages are handled ahead of the FSM,
\* the rest goes through transition.
process_message(tool, event) ==
    IF event.kind = "UpdateOptions"
    THEN Handled(tool.fsm_state, tool.tool_data, <<>>, <<>>)
    ELSE IF event.kind = "ClosePath"
    THEN Handled(tool.fsm_state, tool.tool_data, <<"AddTransaction", "EndTransaction">>, <<>>)
    ELSE IF event.kind = "SwapSelectedHandles"
    THEN Handled(tool.fsm_state, tool.tool_data, <<>>, <<>>)
    ELSE transition(tool.fsm_state, event, tool.tool_data)

\* PathTool::actions: the input-mapped messages dispatched in each state.
actions(fsm_state) ==
    CASE fsm_state = "Ready" ->
            {"FlipSmoothSharp", "MouseDown", "Delete", "NudgeSelectedPoints", "Enter",
             "SelectAllAnchors", "DeselectAllPoints", "BreakPath", "DeleteAndBreakPath",
             "ClosePath", "PointerMove"}
      [] fsm_state = "Dragging" ->
            {"Escape", "RightClick", "FlipSmoothSharp", "DragStop", "PointerMove", "Delete",
             "BreakPath", "DeleteAndBreakPath", "SwapSelectedHandles"}
      [] fsm_state \in Drawing ->
            {"FlipSmoothSharp", "DragStop", "PointerMove", "Delete", "Enter", "BreakPath",
             "DeleteAndBreakPath", "Escape", "RightClick"}
      [] fsm_state = "InsertPoint" ->
            {"Enter", "MouseDown", "PointerMove", "Escape", "Delete", "RightClick", "GRS"}

\* The messages that reach the tool from elsewhere than the input mapper:
\* the tool transitions, the tool's own follow-ups, auto-panning and the
\* tool options bar.
DirectMessages ==
    {"Abort", "SelectionChanged", "Overlays", "SelectedPointUpdated",
     "PointerOutsideViewport", "SelectedPointXChanged", "SelectedPointYChanged",
     "ManipulatorMakeHandlesColinear", "ManipulatorMakeHandlesFree", "UpdateOptions"}

\* What the document, the shape editor and the keyboard can answer while a
\* message of a kind is handled.
Answers(kind) ==
    CASE kind = "MouseDown" ->
            SUBSET {"delete_segment", "vector_data", "point_found", "layer_clicked",
                    "lasso_select"}
      [] kind = "PointerMove" -> SUBSET {"lock_angle", "near_point", "near_segment"}
      [] kind = "Overlays" -> SUBSET {"too_far"}
      [] kind = "FlipSmoothSharp" -> SUBSET {"near_point", "within_drag_threshold"}
      [] OTHER -> {{}}

\* The transactions open after a sequence of DocumentMessages.
RECURSIVE OpenAfter(_, _)
OpenAfter(open, document_messages) ==
    IF document_messages = <<>> THEN open
    ELSE OpenAfter(CASE Head(document_messages) = "StartTransaction" -> open + 1
                     [] Head(document_messages) \in {"EndTransaction", "AbortTransaction"} ->
                            open - 1
                     [] OTHER -> open,
                   Tail(document_messages))

\* The tool processes one message.
PathToolProcessMessage(kind, on) ==
    /\ path_tool.events < MaxToolEvents
    /\ kind \in actions(path_tool.fsm_state) \cup DirectMessages
    /\ LET handled == process_message(path_tool, [kind |-> kind, on |-> on])
       IN  path_tool' = [fsm_state |-> handled.state,
                         tool_data |-> handled.tool_data,
                         document_messages |-> handled.document_messages,
                         warnings |-> handled.warnings,
                         open |-> OpenAfter(path_tool.open, handled.document_messages),
                         events |-> path_tool.events + 1]
    /\ UNCHANGED <<request_channel, response_channel, next_uuid>>
    /\ UNCHANGED <<runtime_vars, client_vars, lock_wait, document_network, instrumented,
                   grabbed, looked_up>>

PathToolMessages ==
    UNION {actions(fsm_state) :
              fsm_state \in {"Ready", "Dragging", "DrawingBox", "DrawingLasso", "InsertPoint"}}
    \cup DirectMessages

NextPathTool ==
    \E kind \in PathToolMessages : \E on \in Answers(kind) : PathToolProcessMessage(kind, on)

SpecPathTool == Init /\ [][NextPathTool]_vars

(***************************************************************************)
(* An editor test: one document, evaluated through the handle with or      *)
(* without an inspect target or instrumented, and queried afterwards.      *)
(***************************************************************************)
InitDocument ==
    /\ request_channel = <<>>
    /\ response_channel = <<>>
    /\ runtime = NewNodeRuntime
    /\ pc = "idle"
    /\ requests = <<>>
    /\ client = NewNodeGraphExecutor
    /\ document = [click_targets |-> {}, vector_modify |-> <<>>]
    /\ poll_out = NoPoll
    /\ next_uuid = FirstUuid
    /\ ops = 0
    /\ drained = <<>>
    /\ iter_sent = <<>>
    /\ superseded = {}
    /\ submitted = <<>>
    /\ graph_log = NoGraphLog
    /\ lock_wait = "none"
    /\ document_network \in {Some(network) : network \in TestDocs}
    /\ instrumented = None
    /\ grabbed = None
    /\ looked_up = None
    /\ path_tool = NewPathTool

NextDocument ==
    \/ \E inspect_node \in TestInspectNodes, ignore_hash \in BOOLEAN :
          SubmitNodeGraphEvaluation(document_network[1], inspect_node, ignore_hash)
    \/ SubmitCurrentNodeGraphEvaluation
    \/ UpdateNodeGraphInstrumented
    \/ \E input \in InputDeclarations : GrabAllInput(input)
    \/ RunDrain
    \/ ProcessGraphUpdate
    \/ ProcessExecutionRequest
    \/ RunReturn

SpecDocument == InitDocument /\ [][NextDocument]_vars

\* An editor test that looks single inputs up instead of grabbing them all.
NextLookup ==
    \/ \E inspect_node \in TestInspectNodes, ignore_hash \in BOOLEAN :
          SubmitNodeGraphEvaluation(document_network[1], inspect_node, ignore_hash)
    \/ SubmitCurrentNodeGraphEvaluation
    \/ UpdateNodeGraphInstrumented
    \/ \E path \in LookupPaths, input \in InputDeclarations : GrabProtonodeInput(path, input)
    \/ \E layer \in LookupLayers, input \in InputDeclarations : GrabInputFromLayer(layer, input)
    \/ RunDrain
    \/ ProcessGraphUpdate
    \/ ProcessExecutionRequest
    \/ RunReturn

SpecLookup == InitDocument /\ [][NextLookup]_vars

(***************************************************************************)
(* The NODE_RUNTIME lock: run_node_graph holds it from RunDrain to          *)
(* RunReturn; introspect_node and replace_node_runtime take it with lock(). *)
(***************************************************************************)
\* Whether run_node_graph holds the guard of NODE_RUNTIME.
LockHeld == pc = "run"

\* Lines 391-394 and 473-487: the runtime in NODE_RUNTIME is replaced by a
\* new one with new channels, and the handle made with it starts afresh.
ReplaceRuntime ==
    /\ runtime' = NewNodeRuntime
    /\ pc' = "idle"
    /\ requests' = <<>>
    /\ drained' = <<>>
    /\ iter_sent' = <<>>
    /\ request_channel' = <<>>
    /\ response_channel' = <<>>
    /\ client' = NewNodeGraphExecutor

\* introspect_node: NODE_RUNTIME.lock() spins until the guard is free, then
\* the executor is read and the guard dropped; the read changes nothing.
IntrospectNode ==
    /\ lock_wait = "none"
    /\ lock_wait' = IF LockHeld THEN "introspect_node" ELSE "none"
    /\ UNCHANGED <<request_channel, response_channel, next_uuid>>
    /\ UNCHANGED <<runtime_vars, client_vars, document_network, instrumented, grabbed, looked_up, path_tool>>

\* replace_node_runtime, called by NodeGraphExecutor::default:
\* NODE_RUNTIME.lock() spins until the guard is free.
ReplaceNodeRuntime ==
    /\ lock_wait = "none"
    /\ IF LockHeld
       THEN /\ lock_wait' = "replace_node_runtime"
            /\ UNCHANGED <<request_channel, response_channel, runtime, pc, requests,
                           drained, iter_sent, client>>
       ELSE /\ lock_wait' = "none"
            /\ ReplaceRuntime
    /\ UNCHANGED <<document, poll_out, next_uuid, ops, superseded, submitted, graph_log,
                   document_network, instrumented, grabbed, looked_up, path_tool>>

\* The spinning call gets the guard once run_node_graph has dropped it.
LockAcquired ==
    /\ lock_wait # "none"
    /\ ~LockHeld
    /\ lock_wait' = "none"
    /\ IF lock_wait = "replace_node_runtime"
       THEN ReplaceRuntime
       ELSE UNCHANGED <<request_channel, response_channel, runtime, pc, requests,
                        drained, iter_sent, client>>
    /\ UNCHANGED <<document, poll_out, next_uuid, ops, superseded, submitted, graph_log,
                   document_network, instrumented, grabbed, looked_up, path_tool>>

NextLock ==
    \/ Next
    \/ IntrospectNode
    \/ ReplaceNodeRuntime
    \/ LockAcquired

SpecLock == Init /\ [][NextLock]_vars

(***************************************************************************)
(* The poll handler on its own: poll_node_graph_evaluation applied to any  *)
(* batch of responses and any in-flight map.                               *)
(***************************************************************************)
PollIds == 1..MaxBatch

PollContexts == {ExecutionContext(None)}
                \cup {ExecutionContext(Some([file_type |-> t])) : t \in {"Svg", "Png"}}

PollResponses ==
    {ExecutionResponse(id, result, <<>>, "document_to_viewport", <<>>, None) :
        id \in PollIds,
        result \in {Ok(Value("RenderOutput::Svg", <<>>)), Ok(Value("None", <<>>)),
                    Err("No input type")}}
    \cup {CompilationResponse(Ok("types"), <<>>),
          CompilationResponse(Err("unresolvable node reference"), <<>>),
          NodeGraphUpdateMessage}

\* The document's hit-testing caches before the poll: empty, or filled by
\* an earlier render.
PollDocuments ==
    {[click_targets |-> {}, vector_modify |-> <<>>],
     [click_targets |-> {1}, vector_modify |-> (1 :> "VectorData")]}

InitPoll ==
    /\ request_channel = <<>>
    /\ response_channel \in UNION {[1..n -> PollResponses] : n \in 0..MaxBatch}
    /\ runtime = NewNodeRuntime
    /\ pc = "idle"
    /\ requests = <<>>
    /\ client \in {[NewNodeGraphExecutor EXCEPT !.futures = futures,
                                                !.old_inspect_node = inspect_node] :
                       futures \in UNION {[ids -> PollContexts] : ids \in SUBSET PollIds},
                       inspect_node \in InspectNodes}
    /\ document \in PollDocuments
    /\ poll_out = NoPoll
    /\ next_uuid = FirstUuid
    /\ ops = 0
    /\ drained = <<>>
    /\ iter_sent = <<>>
    /\ superseded = {}
    /\ submitted = <<>>
    /\ graph_log = NoGraphLog
    /\ lock_wait = "none"
    /\ document_network = None
    /\ instrumented = None
    /\ grabbed = None
    /\ looked_up = None
    /\ path_tool = NewPathTool

NextPoll == PollNodeGraphEvaluation

SpecPoll == InitPoll /\ [][NextPoll]_vars

(***************************************************************************)
(* Claims.                                                                 *)
(***************************************************************************)
KindsOf(messages) == [i \in DOMAIN messages |-> messages[i].kind]

HasKind(messages, kind) == \E i \in DOMAIN messages : messages[i].kind = kind

\* The categories in the order run() must process them.
PriorityKinds ==
    <<"FontCacheUpdate", "EditorPreferencesUpdate", "GraphUpdate", "ExecutionRequest">>

\* The position of the last message of a kind in a batch, 0 if there is none.
LastIndexOf(messages, kind) ==
    IF HasKind(messages, kind)
    THEN CHOOSE i \in DOMAIN messages :
            /\ messages[i].kind = kind
            /\ \A j \in DOMAIN messages : messages[j].kind = kind => j <= i
    ELSE 0

SentOfKind(kind) == {i \in DOMAIN iter_sent : iter_sent[i].response.kind = kind}

\* C1: every iteration of run() first drains the whole request channel and
\* then processes at most one message of each category, one at a time, in
\* the order font cache, preferences, graph update, execution request,
\* whatever the order the messages were sent in.
C1_DrainThenFixedOrder ==
    [][/\ (pc = "idle" /\ pc' = "run") =>
            /\ request_channel' = <<>>
            /\ KindsOf(requests') =
                   SelectSeq(PriorityKinds, LAMBDA kind : HasKind(request_channel, kind))
       /\ (pc = "run" /\ pc' = "run" /\ requests' # requests) =>
            requests' = Tail(requests)]_vars

\* C1 witness: an iteration drained an execution request sent before a font
\* cache update and is about to process font cache, graph, execution.
C1_Witness ==
    /\ pc = "run"
    /\ KindsOf(requests) = <<"FontCacheUpdate", "GraphUpdate", "ExecutionRequest">>
    /\ \E i, j \in DOMAIN drained :
          /\ i < j
          /\ drained[i].kind = "ExecutionRequest"
          /\ drained[j].kind = "FontCacheUpdate"

\* C2: one iteration sends at most one CompilationResponse and at most one
\* ExecutionResponse, and each answers the last graph update, respectively
\* the last execution request, of the batch the iteration drained.
C2_OneResponsePerKindForLast ==
    /\ Cardinality(SentOfKind("CompilationResponse")) <= 1
    /\ Cardinality(SentOfKind("ExecutionResponse")) <= 1
    /\ \A i \in SentOfKind("CompilationResponse") :
          iter_sent[i].request = drained[LastIndexOf(drained, "GraphUpdate")]
    /\ \A i \in SentOfKind("ExecutionResponse") :
          /\ iter_sent[i].request = drained[LastIndexOf(drained, "ExecutionRequest")]
          /\ iter_sent[i].response.execution_id = iter_sent[i].request.execution_id

\* C2 witness: an iteration that drained two different graph updates and two
\* execution requests has sent its compilation and its execution response.
C2_Witness ==
    /\ pc = "run"
    /\ SentOfKind("CompilationResponse") # {}
    /\ SentOfKind("ExecutionResponse") # {}
    /\ \E i, j \in DOMAIN drained :
          /\ i < j
          /\ drained[i].kind = "GraphUpdate" /\ drained[j].kind = "GraphUpdate"
          /\ drained[i].network # drained[j].network
    /\ \E i, j \in DOMAIN drained :
          /\ i < j
          /\ drained[i].kind = "ExecutionRequest" /\ drained[j].kind = "ExecutionRequest"

\* C3: an execution request or graph update overwritten by a later one of
\* the same drain is never processed and never answered: no response with a
\* superseded id is ever sent to, or handled by, the client.
C3_SupersededNeverAnswered ==
    /\ \A i \in DOMAIN requests :
          /\ requests[i].kind = "ExecutionRequest" =>
                requests[i].execution_id \notin superseded
          /\ requests[i].kind = "GraphUpdate" =>
                requests[i] = drained[LastIndexOf(drained, "GraphUpdate")]
    /\ \A i \in DOMAIN iter_sent :
          iter_sent[i].request.kind = "ExecutionRequest" =>
              iter_sent[i].request.execution_id \notin superseded
    /\ \A i \in DOMAIN response_channel :
          response_channel[i].kind = "ExecutionResponse" =>
              response_channel[i].execution_id \notin superseded
    /\ \A i \in DOMAIN poll_out.handled :
          poll_out.handled[i].kind = "ExecutionResponse" =>
              poll_out.handled[i].execution_id \notin superseded

\* C3 witness: R1 was superseded by R2 and the client has handled the
\* response to R2.
C3_Witness ==
    \E r1 \in superseded, i \in DOMAIN poll_out.handled :
        /\ poll_out.handled[i].kind = "ExecutionResponse"
        /\ poll_out.handled[i].execution_id > r1

\* The iteration has nothing left to process: run() is about to return, or
\* it was cut short.
IterationOver == (pc = "run" /\ requests = <<>>) \/ pc = "panicked"

\* C4 (as claimed): when an iteration is over, the last execution request
\* and the last graph update it drained each have exactly one response.
C4_EveryRequestAnswered ==
    IterationOver =>
        /\ HasKind(drained, "ExecutionRequest") =>
              Cardinality({i \in SentOfKind("ExecutionResponse") :
                  iter_sent[i].response.execution_id =
                      drained[LastIndexOf(drained, "ExecutionRequest")].execution_id}) = 1
        /\ HasKind(drained, "GraphUpdate") =>
              Cardinality(SentOfKind("CompilationResponse")) = 1

\* C5 (as claimed): once a graph update whose network has zero or several
\* exports has been processed, a CompilationResponse with an error was sent,
\* no program was installed for it and the loop is still alive.
C5_BadExportCountReported ==
    LET at == LastIndexOf(drained, "GraphUpdate")
    IN  (/\ at # 0
         /\ Len(drained[at].network.exports) # 1
         /\ ~HasKind(requests, "GraphUpdate")
         /\ pc # "idle") =>
            /\ pc # "panicked"
            /\ \E i \in SentOfKind("CompilationResponse") : ~iter_sent[i].response.result.ok
            /\ runtime.executor.tree # None =>
                  Len(runtime.executor.tree[1].network.exports) = 1

\* C6 (as claimed): a poll handles every response it took off the channel.
C6_PollHandlesEveryResponse == Len(poll_out.handled) = poll_out.drained

\* C7 (as claimed): after a poll, the id of every ExecutionResponse it
\* handled is gone from `futures`.
C7_HandledContextRemoved ==
    \A i \in DOMAIN poll_out.handled :
        poll_out.handled[i].kind = "ExecutionResponse" =>
            poll_out.handled[i].execution_id \notin DOMAIN client.futures

C9_RoutedBySubmittedContext ==
    \A i \in DOMAIN poll_out.routed :
        LET routed == poll_out.routed[i]
        IN  /\ routed.execution_id \in DOMAIN submitted
            /\ submitted[routed.execution_id] = "export" => routed.step = "export"
            /\ submitted[routed.execution_id] = "preview" =>
                  routed.step = "process_node_graph_output"

\* C9 witness: one poll routed an export response to the export step and a
\* preview response to process_node_graph_output.
C9_Witness ==
    /\ \E i \in DOMAIN poll_out.routed :
          /\ poll_out.routed[i].step = "export"
          /\ submitted[poll_out.routed[i].execution_id] = "export"
    /\ \E i \in DOMAIN poll_out.routed :
          /\ poll_out.routed[i].step = "process_node_graph_output"
          /\ submitted[poll_out.routed[i].execution_id] = "preview"

\* C10: update_node_graph (the first half of submit_node_graph_evaluation)
\* sends nothing and keeps the stored hash and inspect node when the hash
\* and the inspect node are the stored ones and ignore_hash is false;
\* otherwise it sends exactly one GraphUpdate with the network and the
\* inspect node and stores the network's hash and the inspect node.
C10_UpdateNodeGraphEffect ==
    [][\A network \in Docs, inspect_node \in InspectNodes, ignore_hash \in BOOLEAN :
          (ops' # ops /\ SubmitNodeGraphEvaluation(network, inspect_node, ignore_hash)) =>
              LET sent == SubSeq(request_channel', Len(request_channel) + 1,
                                 Len(request_channel') - 1)
              IN  IF /\ current_hash(network) = client.node_graph_hash
                     /\ inspect_node = client.old_inspect_node
                     /\ ~ignore_hash
                  THEN /\ sent = <<>>
                       /\ client'.node_graph_hash = client.node_graph_hash
                       /\ client'.old_inspect_node = client.old_inspect_node
                  ELSE /\ sent = <<GraphUpdate(network, inspect_node)>>
                       /\ client'.node_graph_hash = current_hash(network)
                       /\ client'.old_inspect_node = inspect_node]_vars

\* C10 witness: the first evaluation sent a graph update and stored hash and
\* inspect node; a second evaluation of the same network and inspect node
\* sent its execution request without a graph update.
C10_Witness ==
    /\ client.node_graph_hash = current_hash(DocRender)
    /\ client.old_inspect_node = Some(1)
    /\ KindsOf(request_channel) = <<"GraphUpdate", "ExecutionRequest", "ExecutionRequest">>

\* The messages a step of the client handle appended to the request channel.
SentByStep == SubSeq(request_channel', Len(request_channel) + 1, Len(request_channel'))

\* C11 (as claimed): whenever the client handle sends a GraphUpdate, the
\* node_graph_hash it holds afterwards is the hash of that update's graph
\* and old_inspect_node is that update's inspect target, and the two change
\* in no other step: the stored state describes the last GraphUpdate sent.
C11_StoredStateDescribesLastGraphUpdate ==
    [][ops' # ops =>
          IF HasKind(SentByStep, "GraphUpdate")
          THEN LET update == SentByStep[LastIndexOf(SentByStep, "GraphUpdate")]
               IN  /\ client'.node_graph_hash = current_hash(update.network)
                   /\ client'.old_inspect_node = update.inspect_node
          ELSE /\ client'.node_graph_hash = client.node_graph_hash
               /\ client'.old_inspect_node = client.old_inspect_node]_vars

\* C12: every execution submission (preview or export) sends exactly one
\* ExecutionRequest, whose id was never generated before, and records
\* exactly one new context under that id in `futures`, every context already
\* in flight staying as it was; it takes nothing off the response channel.
C12_SubmissionFreshIdOneRequestOneContext ==
    [][(/\ ops' # ops
        /\ HasKind(SentByStep, "ExecutionRequest") \/ client'.futures # client.futures) =>
          LET executions == SelectSeq(SentByStep,
                                      LAMBDA message : message.kind = "ExecutionRequest")
              execution_id == executions[1].execution_id
          IN  /\ Len(executions) = 1
              /\ execution_id \notin DOMAIN submitted
              /\ execution_id \notin DOMAIN client.futures
              /\ \A i \in DOMAIN request_channel :
                    request_channel[i].kind = "ExecutionRequest" =>
                        request_channel[i].execution_id # execution_id
              /\ DOMAIN client'.futures = DOMAIN client.futures \cup {execution_id}
              /\ \A id \in DOMAIN client.futures : client'.futures[id] = client.futures[id]
              /\ response_channel' = response_channel]_vars

\* C12 witness: a second submission was made while run() was still busy
\* with the first one: both contexts are in flight under different ids, the
\* first request is being processed and the second one is queued.
C12_Witness ==
    /\ pc = "run"
    /\ HasKind(requests, "ExecutionRequest")
    /\ HasKind(request_channel, "ExecutionRequest")
    /\ Cardinality(DOMAIN client.futures) = 2
    /\ \E id \in DOMAIN client.futures : client.futures[id].export_config # None
    /\ \E id \in DOMAIN client.futures : client.futures[id].export_config = None

\* C14: a poll that handled a CompilationResponse with an error result
\* stopped there and returned the error, and the document's click targets
\* and vector-modify cache are empty when it returns.
C14_FailedCompileClearsCaches ==
    \A i \in DOMAIN poll_out.handled :
        (poll_out.handled[i].kind = "CompilationResponse" /\ ~poll_out.handled[i].ok) =>
            /\ i = Len(poll_out.handled)
            /\ poll_out.result = Err("Node graph evaluation failed")
            /\ document.click_targets = {}
            /\ document.vector_modify = <<>>

\* C14 witness: the document had click targets and a vector-modify cache,
\* the poll handled a successful response and then a failed compile.
C14_Witness ==
    /\ poll_out.document_before.click_targets # {}
    /\ poll_out.document_before.vector_modify # <<>>
    /\ Len(poll_out.handled) = 2
    /\ poll_out.handled[1].kind = "NodeGraphUpdateMessage"
    /\ poll_out.handled[2].kind = "CompilationResponse"
    /\ ~poll_out.handled[2].ok
    /\ document.click_targets = {}

\* C15 (as claimed): no call is ever left waiting for the NODE_RUNTIME lock:
\* an attempt that finds the lock held gives up at once.
C15_LockAttemptsNeverWait == lock_wait = "none"

\* C18: the runtime holds at most one inspect subscription. Processing a
\* graph update with inspect target n leaves exactly the subscription
\* (n, monitor id), the monitor id being generated by that step (it is no
\* node of the graph and not the previous monitor); processing a graph
\* update without a target leaves no subscription; and an execution
\* response carries an inspect result exactly when a subscription is held,
\* for the subscribed node.
C18_OneInspectSubscription ==
    [][/\ Len(runtime'.inspect_state) <= 1
       /\ (/\ pc = "run" /\ requests # <<>> /\ requests' # requests
           /\ Head(requests).kind = "GraphUpdate") =>
             LET target == Head(requests).inspect_node
             IN  IF target = None
                 THEN runtime'.inspect_state = None
                 ELSE /\ runtime'.inspect_state =
                            Some([inspect_node |-> target[1], monitor_node |-> next_uuid])
                      /\ next_uuid' > next_uuid
                      /\ next_uuid \notin DOMAIN Head(requests).network.nodes
                      /\ runtime.inspect_state # None =>
                            runtime.inspect_state[1].monitor_node # next_uuid
       /\ (/\ pc = "run" /\ requests # <<>> /\ requests' # requests
           /\ Head(requests).kind = "ExecutionRequest") =>
             LET response == Last(response_channel')
             IN  /\ response.kind = "ExecutionResponse"
                 /\ runtime.inspect_state = None => response.inspect_result = None
                 /\ runtime.inspect_state # None =>
                       /\ response.inspect_result # None
                       /\ response.inspect_result[1].inspect_node =
                              runtime.inspect_state[1].inspect_node]_vars

\* C18 witness: a second graph update with an inspect target replaced the
\* subscription of the first one, and the execution response of that
\* iteration carries the inspect result.
C18_Witness ==
    /\ pc = "run"
    /\ runtime.inspect_state # None
    /\ runtime.inspect_state[1].monitor_node = FirstUuid + 3
    /\ \E i \in SentOfKind("ExecutionResponse") :
          iter_sent[i].response.inspect_result # None

\* Whether the runtime has no compiled program, or one whose input type is
\* neither the render configuration nor the unit type.
NotExecutable ==
    \/ ExecutorInputType(runtime.executor) = None
    \/ ExecutorInputType(runtime.executor)[1] \notin {"RenderConfig", "()"}

\* C13: processing an execution request while there is no compiled program,
\* or one of another input type, does not abort the loop: the step sends one
\* ExecutionResponse with the request's id and an error result, and run()
\* goes on with the rest of its iteration.
C13_FailedExecutionReported ==
    [][(/\ pc = "run" /\ requests # <<>> /\ requests' # requests
        /\ Head(requests).kind = "ExecutionRequest"
        /\ NotExecutable) =>
          /\ pc' = "run"
          /\ requests' = Tail(requests)
          /\ Len(response_channel') = Len(response_channel) + 1
          /\ Last(response_channel').kind = "ExecutionResponse"
          /\ Last(response_channel').execution_id = Head(requests).execution_id
          /\ ~Last(response_channel').result.ok
          /\ runtime'.executor = runtime.executor]_vars

\* C13 witness: an execution without a program was answered with an error,
\* the graph update that came later compiled, and the execution of that
\* program, which takes another input type, was answered with an error too.
C13_Witness ==
    /\ Len(response_channel) = 3
    /\ response_channel[1].kind = "ExecutionResponse"
    /\ response_channel[1].result = Err("No input type")
    /\ response_channel[2].kind = "CompilationResponse"
    /\ response_channel[2].result.ok
    /\ response_channel[3].kind = "ExecutionResponse"
    /\ response_channel[3].result = Err("Invalid input type")
    /\ pc = "idle"

\* The value the document's graph outputs when executed as it stands.
DocumentOutput ==
    LET output == document_network[1].exports[1]
    IN  ValueOf(document_network[1], output.node_id, output.output_index)

\* C16: every successful execution of the document's graph, compiled with
\* the inspect monitor of monitor_inspect_node or with the monitors of
\* Instrumented::new spliced in, outputs the value the graph outputs without
\* them.
C16_MonitorInjectionPreservesOutput ==
    \A i \in DOMAIN response_channel :
        (response_channel[i].kind = "ExecutionResponse" /\ response_channel[i].result.ok)
            => response_channel[i].result.val = DocumentOutput

\* C16 witness: a graph whose output is computed from other nodes' values
\* was executed with monitors in it, and the monitors were evaluated.
C16_Witness ==
    /\ runtime.executor.observed # {}
    /\ \E i \in DOMAIN response_channel :
          /\ response_channel[i].kind = "ExecutionResponse"
          /\ response_channel[i].result.ok
          /\ response_channel[i].result.val.data # <<>>
          /\ response_channel[i].result.val = DocumentOutput

RECURSIVE ReachableFrom(_, _)
\* The nodes of a network that the given nodes depend on, themselves included.
ReachableFrom(network, ids) ==
    LET inputs == UNION {{network.nodes[id].inputs[i].node_id :
                             i \in {j \in DOMAIN network.nodes[id].inputs :
                                        network.nodes[id].inputs[j].kind = "Node"}} :
                         id \in ids}
    IN  IF inputs \subseteq ids THEN ids ELSE ReachableFrom(network, ids \cup inputs)

\* The nodes of the document's graph that are reachable from its export.
ReachableFromExport ==
    ReachableFrom(document_network[1], {document_network[1].exports[1].node_id})

\* C17: a successful execution while an inspect subscription is on a node A
\* that is reachable from the export answers with an inspect result that
\* names A and carries the value of A's primary output in that execution.
C17_InspectReturnsPrimaryOutput ==
    [][(/\ pc = "run" /\ requests # <<>> /\ requests' # requests
        /\ Head(requests).kind = "ExecutionRequest"
        /\ runtime.inspect_state # None
        /\ runtime.inspect_state[1].inspect_node \in ReachableFromExport
        /\ Last(response_channel').result.ok) =>
          Last(response_channel').inspect_result =
              Some([inspect_node |-> runtime.inspect_state[1].inspect_node,
                    introspected_data |->
                        Some(ValueOf(document_network[1],
                                     runtime.inspect_state[1].inspect_node, 0))])]_vars

RECURSIVE NetworkAt(_, _)
\* The network that holds the node of a path.
NetworkAt(network, path) ==
    IF Len(path) = 1 THEN network
    ELSE NetworkAt(network.nodes[Head(path)].implementation.network, Tail(path))

RECURSIVE EvaluatedPaths(_, _, _, _)
\* The proto nodes evaluated to compute an output of node `id`.
EvaluatedPaths(network, path, id, output_index) ==
    LET node == network.nodes[id]
        Upstream ==
            UNION {IF node.inputs[i].kind = "Node"
                   THEN EvaluatedPaths(network, path, node.inputs[i].node_id,
                                       node.inputs[i].output_index)
                   ELSE {} : i \in DOMAIN node.inputs}
        nested == node.implementation.network
    IN  IF node.implementation.kind = "Network"
        THEN Upstream \cup
             EvaluatedPaths(nested, Append(path, id),
                            nested.exports[output_index + 1].node_id,
                            nested.exports[output_index + 1].output_index)
        ELSE Upstream \cup {Append(path, id)}

\* Whether the program the runtime holds is the document's graph as
\* update_node_graph_instrumented sent it last, and its last answer is a
\* successful execution of it.
InstrumentedGraphExecuted ==
    /\ instrumented # None
    /\ runtime.old_graph =
          Some(InstrumentedNew(document_network[1], client.node_graph_hash + 1).network)
    /\ response_channel # <<>>
    /\ Last(response_channel).kind = "ExecutionResponse"
    /\ Last(response_channel).result.ok

\* What the claim expects of a query: one item per occurrence of the node
\* type in the document's graph that the execution evaluated, in the order
\* of the occurrences, each the value at that occurrence's input.
ExpectedItems(input) ==
    LET D == document_network[1]
        evaluated == EvaluatedPaths(D, <<>>, D.exports[1].node_id,
                                    D.exports[1].output_index)
        NodeOf(occurrence) == NetworkAt(D, occurrence.path).nodes[Last(occurrence.path)]
        occurrences ==
            SelectSeq(ProtoNodes(D, <<>>),
                      LAMBDA o : /\ o.identifier = input.identifier
                                 /\ o.path \in evaluated
                                 /\ input.INDEX + 1 \in DOMAIN NodeOf(o).inputs)
        ValueAt(o) ==
            LET within == NetworkAt(D, o.path)
                read == NodeOf(o).inputs[input.INDEX + 1]
            IN  IF read.kind = "Node"
                THEN ValueOf(within, read.node_id, read.output_index)
                ELSE read.value
    IN  IF InstrumentedGraphExecuted
        THEN [i \in DOMAIN occurrences |-> ValueAt(occurrences[i])]
        ELSE <<>>

\* C19: a grab_all_input query returns one item per evaluated occurrence of
\* the node type, in graph-occurrence order, each the value observed at the
\* occurrence's input of the queried index.
C19_GrabReturnsEvaluatedOccurrences ==
    [][grabbed' # grabbed =>
          /\ ~grabbed'[1].result.panic
          /\ grabbed'[1].result.items = ExpectedItems(grabbed'[1].input)]_vars

\* C20: a grab_all_input query never fails as a whole: an occurrence whose
\* monitor cannot be read as the queried type is left out.
C20_UnreadableOccurrenceLeftOut ==
    grabbed # None => ~grabbed[1].result.panic

\* Whether an input refers to the primary output of node t.
RefersToPrimary(input, t) ==
    input.kind = "Node" /\ input.node_id = t /\ input.output_index = 0

\* An input list after the inspect monitor m was spliced in on node t: the
\* references to t's primary output now go to m's, the others are as before.
InputsRewired(before, after, t, m) ==
    /\ Len(after) = Len(before)
    /\ \A i \in DOMAIN before :
          IF RefersToPrimary(before[i], t)
          THEN RefersToPrimary(after[i], m)
          ELSE after[i] = before[i]

\* A network after the inspect monitor m was spliced in on node t.
NetworkRewired(before, after, t, m) ==
    /\ m \notin DOMAIN before.nodes
    /\ DOMAIN after.nodes = DOMAIN before.nodes \cup {m}
    /\ after.nodes[m].implementation.kind = "ProtoNode"
    /\ after.nodes[m].implementation.name = MonitorNodeName
    /\ Len(after.nodes[m].inputs) = 1
    /\ RefersToPrimary(after.nodes[m].inputs[1], t)
    /\ \A id \in DOMAIN before.nodes :
          /\ after.nodes[id].implementation = before.nodes[id].implementation
          /\ InputsRewired(before.nodes[id].inputs, after.nodes[id].inputs, t, m)
    /\ InputsRewired(before.exports, after.exports, t, m)

\* C26: processing a graph update with inspect node t leaves the network
\* rewired by monitor_inspect_node: every input of a root-level node and
\* every export that referred to output 0 of t refers to output 0 of the new
\* monitor, the monitor's single input refers to output 0 of t, and every
\* other input is unchanged.
C26_InspectMonitorRewiring ==
    [][(/\ pc = "run" /\ requests # <<>> /\ requests' # requests
        /\ Head(requests).kind = "GraphUpdate"
        /\ Head(requests).inspect_node # None) =>
          /\ runtime'.inspect_state # None
          /\ runtime'.inspect_state[1].inspect_node = Head(requests).inspect_node[1]
          /\ NetworkRewired(Head(requests).network, runtime'.old_graph[1],
                            Head(requests).inspect_node[1],
                            runtime'.inspect_state[1].monitor_node)]_vars

\* C26 witness: a monitor was spliced into a graph in which a node has one
\* input that referred to the inspect node's primary output and is
\* retargeted, and another one that refers to a different node.
C26_Witness ==
    /\ runtime.inspect_state # None
    /\ runtime.old_graph # None
    /\ LET t == runtime.inspect_state[1].inspect_node
           m == runtime.inspect_state[1].monitor_node
           network == runtime.old_graph[1]
       IN  /\ m \in DOMAIN network.nodes
           /\ \E id \in DOMAIN network.nodes \ {m} :
                 /\ \E i \in DOMAIN network.nodes[id].inputs :
                       RefersToPrimary(network.nodes[id].inputs[i], m)
                 /\ \E k \in DOMAIN network.nodes[id].inputs :
                       /\ network.nodes[id].inputs[k].kind = "Node"
                       /\ network.nodes[id].inputs[k].node_id \notin {t, m}

\* Whether a node is a monitor node whose single input is the given one.
IsMonitorOf(node, input) ==
    /\ node.implementation.kind = "ProtoNode"
    /\ node.implementation.name = MonitorNodeName
    /\ node.inputs = <<input>>

RECURSIVE EveryInputMonitored(_, _, _)
\* A network after instrumentation: each input of each node it had before
\* refers to a monitor of its own that did not exist before, in the same
\* network, and that monitor reads what the input read before; the same in
\* every nested network.
EveryInputMonitored(before, after, first_fresh_id) ==
    LET fresh == DOMAIN after.nodes \ DOMAIN before.nodes
        slots == UNION {{<<id, i>> : i \in DOMAIN before.nodes[id].inputs} :
                           id \in DOMAIN before.nodes}
        MonitorOf(slot) == after.nodes[slot[1]].inputs[slot[2]].node_id
    IN  /\ DOMAIN before.nodes \subseteq DOMAIN after.nodes
        /\ \A m \in fresh : m >= first_fresh_id
        /\ \A id \in DOMAIN before.nodes :
              /\ Len(after.nodes[id].inputs) = Len(before.nodes[id].inputs)
              /\ after.nodes[id].implementation.kind = before.nodes[id].implementation.kind
              /\ after.nodes[id].implementation.name = before.nodes[id].implementation.name
              /\ before.nodes[id].implementation.kind = "Network" =>
                    EveryInputMonitored(before.nodes[id].implementation.network,
                                        after.nodes[id].implementation.network,
                                        first_fresh_id)
        /\ \A slot \in slots :
              /\ RefersToPrimary(after.nodes[slot[1]].inputs[slot[2]], MonitorOf(slot))
              /\ MonitorOf(slot) \in fresh
              /\ IsMonitorOf(after.nodes[MonitorOf(slot)],
                             before.nodes[slot[1]].inputs[slot[2]])
        /\ \A slot \in slots, other \in slots :
              slot # other => MonitorOf(slot) # MonitorOf(other)

\* C27: the network update_node_graph_instrumented sends is the document's
\* network with every input of every node, at every nesting depth, moved to
\* a distinct freshly created monitor of the same network whose single
\* input is the original input.
C27_EveryInputGetsItsMonitor ==
    [][instrumented' # instrumented =>
          /\ Last(request_channel').kind = "GraphUpdate"
          /\ EveryInputMonitored(document_network[1], Last(request_channel').network,
                                 next_uuid)]_vars

\* C27 witness: a document with a nested network was instrumented, and a
\* proto node inside the nested network has a monitor on its input.
C27_Witness ==
    /\ instrumented # None
    /\ \E path \in DOMAIN instrumented[1].protonodes_by_path :
          /\ Len(path) = 2
          /\ instrumented[1].protonodes_by_path[path] # <<>>

RECURSIVE MonitorsReadOriginalInputs(_, _)
\* A network after instrumentation: each node it did not have before is a
\* monitor whose input is one of the inputs the network had before, there
\* are as many of them as there were inputs, and the same holds in every
\* nested network.
MonitorsReadOriginalInputs(before, after) ==
    LET fresh == DOMAIN after.nodes \ DOMAIN before.nodes
        slots == UNION {{<<id, i>> : i \in DOMAIN before.nodes[id].inputs} :
                           id \in DOMAIN before.nodes}
    IN  /\ Cardinality(fresh) = Cardinality(slots)
        /\ \A m \in fresh :
              /\ \E slot \in slots :
                    IsMonitorOf(after.nodes[m], before.nodes[slot[1]].inputs[slot[2]])
              /\ \A i \in DOMAIN after.nodes[m].inputs :
                    after.nodes[m].inputs[i].kind = "Node" =>
                        after.nodes[m].inputs[i].node_id \notin fresh
        /\ \A id \in DOMAIN before.nodes :
              before.nodes[id].implementation.kind = "Network" =>
                  MonitorsReadOriginalInputs(before.nodes[id].implementation.network,
                                             after.nodes[id].implementation.network)

\* C28: in the network update_node_graph_instrumented sends, no inserted
\* monitor is itself instrumented: the input of every inserted monitor is
\* an original input of its network, never another inserted monitor, and
\* the index lists no inserted monitor as a proto node.
C28_MonitorsAreNotInstrumented ==
    [][instrumented' # instrumented =>
          /\ MonitorsReadOriginalInputs(document_network[1], Last(request_channel').network)
          /\ \A path \in DOMAIN instrumented'[1].protonodes_by_path :
                Last(path) < next_uuid]_vars

\* C28 witness: the instrumented document has several occurrences of one
\* node type, each walked before any monitor was inserted.
C28_Witness ==
    /\ instrumented # None
    /\ \E name \in DOMAIN instrumented[1].protonodes_by_name :
          /\ Len(instrumented[1].protonodes_by_name[name]) >= 2
          /\ \A i \in DOMAIN instrumented[1].protonodes_by_name[name] :
                instrumented[1].protonodes_by_name[name][i] # <<>>

\* What the claim expects of a lookup by path: the value at the input of the
\* proto node of exactly that path in the document's graph, if the
\* execution evaluated that node and it has the input; no value otherwise.
ExpectedAtPath(path, input) ==
    LET D == document_network[1]
        evaluated == EvaluatedPaths(D, <<>>, D.exports[1].node_id,
                                    D.exports[1].output_index)
        proto_paths == {ProtoNodes(D, <<>>)[i].path : i \in DOMAIN ProtoNodes(D, <<>>)}
        within == NetworkAt(D, path)
        node == within.nodes[Last(path)]
        read == node.inputs[input.INDEX + 1]
    IN  IF /\ InstrumentedGraphExecuted
           /\ path \in proto_paths
           /\ path \in evaluated
           /\ input.INDEX + 1 \in DOMAIN node.inputs
        THEN Some(IF read.kind = "Node"
                  THEN ValueOf(within, read.node_id, read.output_index)
                  ELSE read.value)
        ELSE None

\* What the claim expects of a lookup from a layer: the lookup by path of
\* the upstream node of the requested type, no value if there is none.
ExpectedFromLayer(layer, input) ==
    LET node == upstream_node_id_from_protonode(document_network[1], layer, input.identifier)
    IN  IF node = None THEN None ELSE ExpectedAtPath(<<node[1]>>, input)

\* C21: grab_protonode_input and grab_input_from_layer return the value
\* observed at the queried input of the proto node of exactly the given
\* path, and no value when the path is not indexed, the node has no such
\* input, the layer has no upstream node of the type, or introspection
\* fails.
C21_SingleResultLookups ==
    [][looked_up' # looked_up =>
          /\ ~looked_up'[1].result.panic
          /\ looked_up'[1].result.value =
                IF looked_up'[1].by = "path"
                THEN ExpectedAtPath(looked_up'[1].path, looked_up'[1].input)
                ELSE ExpectedFromLayer(looked_up'[1].layer, looked_up'[1].input)]_vars

\* A step of run() that processes a graph update.
GraphUpdateStep ==
    /\ pc = "run" /\ requests # <<>> /\ requests' # requests
    /\ Head(requests).kind = "GraphUpdate"

\* C22 as stated: the graph stored as last known graph when a graph update
\* is processed is the network received in the GraphUpdate, without the
\* inspect monitor.
C22_OldGraphIsReceivedGraph ==
    [][GraphUpdateStep => runtime'.old_graph = Some(Head(requests).network)]_vars

\* C22 amended: the graph stored as last known graph is the graph after
\* injection: the received network when no inspect node is asked for, and
\* otherwise the received network with the inspect monitor added, so that a
\* later font cache or preferences update, which leaves old_graph and the
\* subscription alone, recompiles the graph with the monitor.
C22_OldGraphIsInjectedGraph ==
    [][/\ GraphUpdateStep =>
            IF Head(requests).inspect_node = None
            THEN runtime'.old_graph = Some(Head(requests).network)
            ELSE /\ runtime'.old_graph # Some(Head(requests).network)
                 /\ DOMAIN runtime'.old_graph[1].nodes =
                        DOMAIN Head(requests).network.nodes
                        \cup {runtime'.inspect_state[1].monitor_node}
                 /\ runtime'.inspect_state[1].monitor_node
                        \notin DOMAIN Head(requests).network.nodes
       /\ (/\ pc = "run" /\ requests # <<>> /\ requests' # requests
           /\ Head(requests).kind \in {"FontCacheUpdate", "EditorPreferencesUpdate"}) =>
              /\ runtime'.old_graph = runtime.old_graph
              /\ runtime'.inspect_state = runtime.inspect_state
              /\ (/\ runtime'.executor.tree # runtime.executor.tree
                  /\ runtime.inspect_state # None) =>
                     runtime.inspect_state[1].monitor_node
                         \in DOMAIN runtime'.executor.tree[1].network.nodes]_vars

\* C22 witness: an iteration that drained a font cache update alone has
\* recompiled the graph of an earlier graph update with an inspect node, and
\* the program still has the inspect monitor.
C22_Witness ==
    /\ pc = "run"
    /\ requests = <<>>
    /\ KindsOf(drained) = <<"FontCacheUpdate">>
    /\ runtime.inspect_state # None
    /\ runtime.executor.tree # None
    /\ runtime.inspect_state[1].monitor_node
          \in DOMAIN runtime.executor.tree[1].network.nodes
    /\ runtime.inspect_state[1].monitor_node \in DOMAIN runtime.old_graph[1].nodes

\* The paths of the monitor nodes of the program the executor holds.
ProgramMonitorPaths ==
    IF runtime.executor.tree = None THEN {}
    ELSE {runtime.executor.tree[1].nodes[i].path :
             i \in {j \in DOMAIN runtime.executor.tree[1].nodes :
                        runtime.executor.tree[1].nodes[j].identifier = MonitorNodeName}}

\* C23: while run() has not panicked, the monitor of an active inspect
\* subscription is a monitor of the program the executor holds, and
\* monitor_nodes lists exactly the monitor paths of that program.
C23_MonitorBookkeepingMatchesProgram ==
    pc # "panicked" =>
        /\ runtime.inspect_state # None =>
              <<runtime.inspect_state[1].monitor_node>> \in ProgramMonitorPaths
        /\ Range(runtime.monitor_nodes) = ProgramMonitorPaths

\* A step of run() that processes a font cache or preferences update.
AssetUpdateStep ==
    /\ pc = "run" /\ requests # <<>> /\ requests' # requests
    /\ Head(requests).kind \in {"FontCacheUpdate", "EditorPreferencesUpdate"}

\* The runtime with the value of an asset update recorded and nothing else
\* changed.
Recorded(rt, request) ==
    IF request.kind = "FontCacheUpdate"
    THEN [rt EXCEPT !.editor_api.font_cache = request.font_cache]
    ELSE [rt EXCEPT !.editor_preferences = request.preferences,
                    !.editor_api.editor_preferences = request.preferences]

\* C24: processing a font cache or preferences update records the new
\* value and sends nothing to the client. Without a compiled program it does
\* nothing else. With one, it compiles the last known graph against the new
\* context: the program becomes that graph in the new scope and
\* monitor_nodes its monitors, or, when that compile fails, the program
\* stays; the loop goes on either way.
C24_AssetUpdateRecompilesSilently ==
    [][AssetUpdateStep =>
          LET recorded == Recorded(runtime, Head(requests))
              scoped == wrap_network_in_scope(runtime.old_graph[1], recorded.editor_api)
          IN  /\ response_channel' = response_channel
              /\ pc' = "run"
              /\ requests' = Tail(requests)
              /\ runtime'.editor_api = recorded.editor_api
              /\ runtime'.editor_preferences = recorded.editor_preferences
              /\ runtime.old_graph = None => runtime' = recorded
              /\ IF runtime.executor.tree = None
                 THEN runtime' = recorded
                 ELSE IF compile_single(scoped).ok
                 THEN /\ runtime'.executor.tree[1].network = scoped
                      /\ Range(runtime'.monitor_nodes) =
                            {p \in {runtime'.executor.tree[1].nodes[i].path :
                                       i \in DOMAIN runtime'.executor.tree[1].nodes} :
                                \E i \in DOMAIN runtime'.executor.tree[1].nodes :
                                    /\ runtime'.executor.tree[1].nodes[i].path = p
                                    /\ runtime'.executor.tree[1].nodes[i].identifier
                                          = MonitorNodeName}
                 ELSE runtime' = recorded]_vars

\* C24 witness: a font cache update was processed while the runtime held a
\* program and a last known graph that does not compile: the recompile
\* failed, the program stayed and the client was sent nothing.
C24_Witness ==
    /\ pc = "run"
    /\ requests = <<>>
    /\ KindsOf(drained) = <<"FontCacheUpdate">>
    /\ runtime.editor_api.font_cache # "default"
    /\ runtime.executor.tree # None
    /\ runtime.old_graph = Some(DocBroken)
    /\ iter_sent = <<>>

\* A step of run() that processes an execution request.
ExecutionStep ==
    /\ pc = "run" /\ requests # <<>> /\ requests' # requests
    /\ Head(requests).kind = "ExecutionRequest"

\* The monitors of a runtime's program that the sweep reads: those with a
\* parent node, the inspect monitor aside, that hold a record.
SweptMonitors(rt) ==
    {path \in Range(rt.monitor_nodes) :
        /\ Len(path) >= 2
        /\ ~(rt.inspect_state # None /\ Last(path) = rt.inspect_state[1].monitor_node)
        /\ ExecutorIntrospect(rt.executor, path).ok}

\* Whether the thumbnail cache of a runtime agrees with the records of its
\* monitors.
ThumbnailsFresh(rt) ==
    \A path \in SweptMonitors(rt) :
        LET record == ExecutorIntrospect(rt.executor, path).val
            parent == path[Len(path) - 1]
        IN  record.tag \in {"GraphicElement", "Artboard"} =>
                /\ parent \in DOMAIN rt.thumbnail_renders
                /\ rt.thumbnail_renders[parent] = RenderThumbnail(record)

\* Whether the vector snapshot cache of a runtime agrees with the records
\* of its monitors.
VectorModifyFresh(rt) ==
    \A path \in SweptMonitors(rt) :
        LET record == ExecutorIntrospect(rt.executor, path).val
            parent == path[Len(path) - 1]
        IN  record.tag = "VectorDataTable" =>
                /\ parent \in DOMAIN rt.vector_modify
                /\ rt.vector_modify[parent] = record

\* C25: once an execution request has been processed, the cached
\* thumbnails and vector snapshots are those of the monitors of the program
\* compiled last, whether a graph update or a font cache or preferences
\* update compiled it.
C25_CachesRefreshedAfterCompile ==
    [][ExecutionStep => ThumbnailsFresh(runtime') /\ VectorModifyFresh(runtime')]_vars

\* The monitors of a runtime's program that the sweep skips, the inspect
\* monitor aside: those with no parent node and those with no record.
SkippedMonitors(rt) ==
    {path \in Range(rt.monitor_nodes) :
        /\ ~(rt.inspect_state # None /\ path # <<>>
              /\ Last(path) = rt.inspect_state[1].monitor_node)
        /\ \/ Len(path) < 2
           \/ ~ExecutorIntrospect(rt.executor, path).ok}

\* C29: a sweep that skips a monitor (no record, or no parent node) still
\* processes every other monitor of monitor_nodes, and the execution
\* response is still sent.
C29_SkippedMonitorDoesNotAbortSweep ==
    [][(ExecutionStep /\ SkippedMonitors(runtime') # {}) =>
            /\ VectorModifyFresh(runtime')
            /\ (runtime.update_thumbnails => ThumbnailsFresh(runtime'))
            /\ Len(response_channel') = Len(response_channel) + 1
            /\ Last(response_channel').kind = "ExecutionResponse"
            /\ Last(response_channel').execution_id = Head(requests).execution_id
            /\ Last(response_channel').vector_modify = runtime'.vector_modify]_vars

\* C29 witness: an execution request was just processed over a program in
\* which a monitor without a record precedes a monitor with a vector
\* record; the later monitor's record is in the snapshot cache and in the
\* response sent.
C29_Witness ==
    /\ pc = "run"
    /\ iter_sent # <<>>
    /\ Last(iter_sent).request.kind = "ExecutionRequest"
    /\ response_channel # <<>>
    /\ Last(response_channel) = Last(iter_sent).response
    /\ \E i, j \in DOMAIN runtime.monitor_nodes :
          /\ i < j
          /\ runtime.monitor_nodes[i] \in SkippedMonitors(runtime)
          /\ runtime.monitor_nodes[j] \in SweptMonitors(runtime)
          /\ LET path == runtime.monitor_nodes[j]
                 record == ExecutorIntrospect(runtime.executor, path).val
                 parent == path[Len(path) - 1]
             IN  /\ record.tag = "VectorDataTable"
                 /\ parent \in DOMAIN Last(response_channel).vector_modify
                 /\ Last(response_channel).vector_modify[parent] = record

\* The node ids that occur in the monitor paths of a runtime.
MonitoredIds(rt) == UNION {Range(path) : path \in Range(rt.monitor_nodes)}

\* C30: after each sweep the thumbnail cache and the vector snapshot cache,
\* the one sent in the execution response included, hold entries only for
\* nodes that occur in the current monitor set.
C30_CachesPrunedToMonitorSet ==
    [][ExecutionStep =>
            /\ DOMAIN runtime'.thumbnail_renders \subseteq MonitoredIds(runtime')
            /\ DOMAIN runtime'.vector_modify \subseteq MonitoredIds(runtime')
            /\ DOMAIN Last(response_channel').vector_modify
                   \subseteq MonitoredIds(runtime')]_vars

\* The thumbnail a sweep finds cached for a node: the cached one if the
\* node survives the pruning, the empty default otherwise.
CachedThumbnail(rt, id) ==
    IF id \in DOMAIN rt.thumbnail_renders /\ id \in MonitoredIds(rt)
    THEN rt.thumbnail_renders[id] ELSE <<>>

\* The nodes an execution response carries an UpdateNodeThumbnail for.
NotifiedIds(response) ==
    {response.responses[i].id : i \in {j \in DOMAIN response.responses :
        response.responses[j].msg = "UpdateNodeThumbnail"}}

\* C31: a sweep notifies of a node's thumbnail exactly when the thumbnail
\* it rendered differs from the cached one, and the cache then holds the
\* new thumbnail; over unchanged values nothing is notified.
C31_ThumbnailNotifiedOnlyOnChange ==
    [][ExecutionStep =>
          LET response == Last(response_channel')
          IN  /\ \A id \in NotifiedIds(response) :
                    /\ id \in DOMAIN runtime'.thumbnail_renders
                    /\ runtime'.thumbnail_renders[id] # CachedThumbnail(runtime, id)
              /\ \A id \in DOMAIN runtime'.thumbnail_renders :
                    runtime'.thumbnail_renders[id] # CachedThumbnail(runtime, id)
                        => id \in NotifiedIds(response)
              /\ runtime.update_thumbnails => ThumbnailsFresh(runtime')]_vars

\* C31 witness: a graph update and an execution request were processed in
\* one iteration over a program whose graphic monitor already had its
\* thumbnail cached: the sweep rendered it again and notified nothing.
C31_Witness ==
    /\ pc = "run"
    /\ requests = <<>>
    /\ KindsOf(drained) = <<"GraphUpdate", "ExecutionRequest">>
    /\ iter_sent # <<>>
    /\ Last(iter_sent).request.kind = "ExecutionRequest"
    /\ NotifiedIds(Last(iter_sent).response) = {}
    /\ \E path \in SweptMonitors(runtime) :
          /\ ExecutorIntrospect(runtime.executor, path).val.tag = "GraphicElement"
          /\ path[Len(path) - 1] \in DOMAIN runtime.thumbnail_renders
    /\ response_channel # <<>>
    /\ \E i \in DOMAIN response_channel :
          /\ response_channel[i].kind = "ExecutionResponse"
          /\ NotifiedIds(response_channel[i]) # {}

\* C32: every ExecutionResponse a poll handles has its context in
\* `futures` when the poll reaches it, so no poll returns "Invalid
\* generation ID".
C32_HandledResponseHasContext ==
    /\ poll_out.result # Err("Invalid generation ID")
    /\ \A i \in DOMAIN poll_out.handled :
          poll_out.handled[i].kind = "ExecutionResponse" => poll_out.handled[i].known
    /\ \A i, j \in DOMAIN response_channel :
          (/\ i # j
           /\ response_channel[i].kind = "ExecutionResponse"
           /\ response_channel[j].kind = "ExecutionResponse") =>
              response_channel[i].execution_id # response_channel[j].execution_id
    /\ \A i \in DOMAIN response_channel :
          response_channel[i].kind = "ExecutionResponse" =>
              response_channel[i].execution_id \in DOMAIN client.futures

\* C32 witness: one poll handled the responses of two requests, answered
\* by two iterations of run(), and found the context of each.
C32_Witness ==
    \E i, j \in DOMAIN poll_out.handled :
        /\ i < j
        /\ poll_out.handled[i].kind = "ExecutionResponse"
        /\ poll_out.handled[j].kind = "ExecutionResponse"
        /\ poll_out.handled[i].known /\ poll_out.handled[j].known
        /\ poll_out.handled[i].execution_id # poll_out.handled[j].execution_id
        /\ poll_out.result = Ok("()")

\* The runtime has drained every request and the client has polled every
\* response.
Quiescent ==
    /\ pc = "idle"
    /\ request_channel = <<>>
    /\ response_channel = <<>>

\* C33: once the runtime has drained every pending request and the client
\* has polled every pending response, `futures` is empty.
C33_FuturesEmptyWhenQuiescent ==
    Quiescent => DOMAIN client.futures = {}

\* C34: once the runtime has run and the client has polled, an export
\* has had its export step also when another evaluation was submitted after
\* it before the runtime's drain: its context, which only the handling of
\* its response takes out of `futures`, is no longer waiting there.
C34_ExportStepHappened ==
    Quiescent =>
        \A execution_id \in DOMAIN submitted :
            (submitted[execution_id] = "export" /\ execution_id \in superseded) =>
                execution_id \notin DOMAIN client.futures

\* Whether the graph update last processed by a runtime is `message`: the
\* last known graph is the message's network, with the inspect monitor when
\* the message asks for one.
LastProcessedIs(rt, message) ==
    IF message.inspect_node = None
    THEN rt.inspect_state = None /\ rt.old_graph = Some(message.network)
    ELSE /\ rt.inspect_state # None
         /\ rt.inspect_state[1].inspect_node = message.inspect_node[1]
         /\ rt.old_graph = Some(MonitorInspectNetwork(message.network,
                                                     message.inspect_node[1],
                                                     rt.inspect_state[1].monitor_node))

\* C35: when an execution request is executed, the graph update the
\* runtime processed last is the latest one the handle had sent when it
\* submitted the request, or one sent later.
C35_ExecutedAgainstCurrentGraph ==
    [][(ExecutionStep /\ Head(requests).execution_id \in DOMAIN graph_log.at) =>
          LET sent_before == graph_log.at[Head(requests).execution_id]
          IN  sent_before > 0 =>
                 \E i \in sent_before..Len(graph_log.sent) :
                     LastProcessedIs(runtime, graph_log.sent[i])]_vars

\* C35 witness: two submissions with different graphs were drained in one
\* batch, and the second request was executed after the second graph
\* update had been processed.
C35_Witness ==
    /\ pc = "run"
    /\ KindsOf(drained) =
          <<"GraphUpdate", "ExecutionRequest", "GraphUpdate", "ExecutionRequest">>
    /\ drained[1] # drained[3]
    /\ iter_sent # <<>>
    /\ Last(iter_sent).request = drained[4]
    /\ graph_log.at[drained[4].execution_id] = 2
    /\ LastProcessedIs(runtime, graph_log.sent[2])
    /\ ~LastProcessedIs(runtime, graph_log.sent[1])

\* C36: while the client keeps evaluating the same unchanged graph with the
\* same inspect node, every response to one of those evaluations carries an
\* inspect result for that node, also after an export in between.
C36_SubscriptionPersists ==
    [][(/\ ExecutionStep
        /\ Head(requests).execution_id \in DOMAIN submitted
        /\ submitted[Head(requests).execution_id] = "preview") =>
            /\ Last(response_channel').execution_id = Head(requests).execution_id
            /\ Last(response_channel').inspect_result # None
            /\ Last(response_channel').inspect_result[1].inspect_node
                   = SubscriptionInspectNode[1]]_vars

\* Whether a sequence of DocumentMessages keeps the tool's transactions
\* balanced, given how many are open before it: no StartTransaction while
\* one is open, no EndTransaction or AbortTransaction while none is.
RECURSIVE Balanced(_, _)
Balanced(open, document_messages) ==
    IF document_messages = <<>> THEN TRUE
    ELSE LET message == Head(document_messages)
         IN  /\ message = "StartTransaction" => open = 0
             /\ message \in {"EndTransaction", "AbortTransaction"} => open = 1
             /\ Balanced(OpenAfter(open, <<message>>), Tail(document_messages))

\* C37: along every sequence of path tool messages each StartTransaction
\* is followed by exactly one EndTransaction or AbortTransaction before the
\* next StartTransaction and before the tool rests in Ready, and none of
\* the two is emitted while no transaction of the tool is open.
C37_TransactionsBalanced ==
    [][/\ Balanced(path_tool.open, path_tool'.document_messages)
       /\ path_tool'.fsm_state = "Ready" => path_tool'.open = 0]_vars

\* C38: tool_data.segment is set exactly when the FSM is in InsertPoint,
\* and neither start_insertion nor update_insertion nor end_insertion finds
\* it otherwise.
C38_SegmentSetExactlyInInsertPoint ==
    /\ (path_tool.tool_data.segment # None) <=> (path_tool.fsm_state = "InsertPoint")
    /\ path_tool.warnings = <<>>

====
